---- MODULE Spec2Model ----
(***************************************************************************)
(* The client-side state engine of the Table component (Table.jsx and its  *)
(* TypeScript twin Table.tsx): row normalization and identity, sorting,    *)
(* pagination, column widths and their store.  Every action is one event handler (or one change of the    *)
(* props) followed by the render pass React runs after it, so every state  *)
(* of the model is a settled state of the component.                       *)
(***************************************************************************)
EXTENDS Integers, Sequences, FiniteSets, TLC

(***************************************************************************)
(* Bounds of the model.                                                    *)
(***************************************************************************)
\* longest manualRowData array
MaxRows == 4
\* largest rowsPerPage the caller passes besides the default
MaxPageSize == 2
\* most drag sessions left open at once (pointer-downs with no pointer-up)
MaxSessions == 2

(***************************************************************************)
(* State of one mounted Table.                                             *)
(***************************************************************************)
VARIABLES
  manualRowData,   \* prop: [isArray, items]
  manualHeaders,   \* prop: [given, cols]
  rowsPerPage,     \* prop
  shouldPaginate,  \* prop
  sortConfig,      \* useState(initialSort || null)
  currentPage,     \* useState(1)
  rows,            \* useMemo: the normalized rows
  sortedRows,      \* useMemo: the sorted view
  totalPages,      \* value of the last render pass
  paginatedRows,   \* useMemo: the visible rows
  lastOp,          \* history: the event that led to this state
  pageBefore,      \* history: currentPage when that event arrived
  minColWidth,                  \* prop
  mobileAutoSizeOnHeaderClick,  \* prop
  columnWidthsStorageKey,       \* prop: [given, name]
  columnWidths,            \* useState({}): accessor -> width
  expandedColumns,         \* useState(new Set())
  initialColumnWidthsRef,  \* useRef({}): accessor -> declared width
  isMobile,                \* useState(window.innerWidth < mobileBreakpoint)
  dragSessions,   \* the mousemove/mouseup listener pairs on the document
  innerWidth,     \* environment: window.innerWidth
  store,          \* environment: window.localStorage, key -> text
  glyphWidth,     \* environment: width the 2d context measures per character
  onRowsPerPageChange,  \* prop: whether the callback is passed
  rowsPerPageOptions,   \* prop: [isArray, items]
  storageThrows,  \* environment: the localStorage calls that throw
  thrown,         \* an exception has left an effect: React unmounts the tree
  seedFound,      \* history: what the seed effect of the last event on the
                  \* columns or the store read, NotRead if it did not run
  tapBefore,      \* history: the last event on the columns was a tap on a
                  \* header that followed a tap on the same header
  mobileBreakpoint,  \* prop
  resizeListeners,   \* environment: the resize listeners of the table on window
  mounted,           \* the table has not been unmounted by its caller
  availableColumns,   \* ColumnVisibilityToggle prop: sequence of [key, label]
  visibleColumns,     \* ColumnVisibilityToggle prop: sequence of keys
  visibilityStorageKey,  \* ColumnVisibilityToggle prop storageKey
  isOpen,             \* ColumnVisibilityToggle useState(false)
  storedColumns,      \* environment: the text localStorage holds under the
                      \* storageKey of the toggle
  reported            \* history: the last call of onColumnsChange

\* the table's props and state that the column events leave alone
tableVars ==
  << manualRowData, manualHeaders, rowsPerPage, shouldPaginate, sortConfig,
     currentPage, rows, sortedRows, totalPages, paginatedRows >>

\* the column props, state and environment that the table events leave alone
columnVars ==
  << minColWidth, mobileAutoSizeOnHeaderClick, columnWidthsStorageKey,
     columnWidths, expandedColumns, initialColumnWidthsRef, isMobile,
     dragSessions, innerWidth, store, glyphWidth, onRowsPerPageChange,
     rowsPerPageOptions, storageThrows, thrown, seedFound, tapBefore,
     mobileBreakpoint, resizeListeners, mounted, availableColumns,
     visibleColumns, visibilityStorageKey, isOpen, storedColumns, reported >>

viewportVars == <<mobileBreakpoint, resizeListeners, mounted>>

\* the props, state and environment of a ColumnVisibilityToggle
toggleVars ==
  << availableColumns, visibleColumns, visibilityStorageKey, isOpen,
     storedColumns, reported >>

vars ==
  << manualRowData, manualHeaders, rowsPerPage, shouldPaginate, sortConfig,
     currentPage, rows, sortedRows, totalPages, paginatedRows, lastOp,
     pageBefore, minColWidth, mobileAutoSizeOnHeaderClick,
     columnWidthsStorageKey, columnWidths, expandedColumns,
     initialColumnWidthsRef, isMobile, dragSessions, innerWidth, store,
     glyphWidth, onRowsPerPageChange, rowsPerPageOptions, storageThrows,
     thrown, seedFound, tapBefore, mobileBreakpoint, resizeListeners,
     mounted, availableColumns, visibleColumns, visibilityStorageKey,
     isOpen, storedColumns, reported >>

(***************************************************************************)
(* JavaScript values.  A string is the sequence of its characters; a       *)
(* primitive is a record of its type tag, its number and its string; a     *)
(* value adds the own properties of an object.  The model carries          *)
(* undefined, null, integers, strings and plain objects with primitive     *)
(* properties.                                                             *)
(***************************************************************************)
Digits == <<"0", "1", "2", "3", "4", "5", "6", "7", "8", "9">>

Lower ==
  << "a", "b", "c", "d", "e", "f", "g", "h", "i", "j", "k", "l", "m", "n",
     "o", "p", "q", "r", "s", "t", "u", "v", "w", "x", "y", "z" >>

IsDigit(c) == \E i \in 1..10 : Digits[i] = c

IsLower(c) == \E i \in 1..26 : Lower[i] = c

\* the UTF-16 code unit of a character of the model's strings
CharCode(c) ==
  CASE IsDigit(c) -> 47 + (CHOOSE i \in 1..10 : Digits[i] = c)
    [] IsLower(c) -> 96 + (CHOOSE i \in 1..26 : Lower[i] = c)
    [] c = " " -> 32
    [] c = "+" -> 43
    [] c = "-" -> 45
    [] c = "O" -> 79
    [] c = "[" -> 91
    [] c = "]" -> 93

DigitValue(c) == CharCode(c) - CharCode("0")

\* the identifier fields makeSafeId falls back to, in its order
FallbackFields ==
  << "order_id", "bom_id", "bom_workstation_status_id", "bom_data_id",
     "unique_task_info_id", "order_data_id" >>

UndefP == [t |-> "undefined", n |-> 0, s |-> <<>>]
NullP == [t |-> "null", n |-> 0, s |-> <<>>]
NumP(k) == [t |-> "number", n |-> k, s |-> <<>>]
StrP(str) == [t |-> "string", n |-> 0, s |-> str]

\* the properties of a value that has none
NoProps == [f \in {} |-> UndefP]

\* a primitive as a value
Lift(p) == [t |-> p.t, n |-> p.n, s |-> p.s, o |-> NoProps]

Undefined == Lift(UndefP)
Null == Lift(NullP)
Num(k) == Lift(NumP(k))
Str(str) == Lift(StrP(str))

\* the object literal with the given properties
Obj(props) == [t |-> "object", n |-> 0, s |-> <<>>, o |-> props]

\* full?.[name]
Prop(full, name) ==
  IF name \in DOMAIN full.o THEN Lift(full.o[name]) ELSE Undefined

\* Boolean(v)
Truthy(v) ==
  CASE v.t = "undefined" -> FALSE
    [] v.t = "null" -> FALSE
    [] v.t = "number" -> v.n # 0
    [] v.t = "string" -> v.s # <<>>
    [] OTHER -> TRUE

\* typeof v
TypeOf(v) == IF v.t = "null" THEN "object" ELSE v.t

RECURSIVE NatToString(_)
NatToString(k) ==
  IF k < 10 THEN <<Digits[k + 1]>>
  ELSE NatToString(k \div 10) \o <<Digits[(k % 10) + 1]>>

\* String(v)
StringOf(v) ==
  CASE v.t = "undefined" -> <<"u", "n", "d", "e", "f", "i", "n", "e", "d">>
    [] v.t = "null" -> <<"n", "u", "l", "l">>
    [] v.t = "number" ->
         IF v.n < 0 THEN <<"-">> \o NatToString(0 - v.n) ELSE NatToString(v.n)
    [] v.t = "string" -> v.s
    [] OTHER -> << "[", "o", "b", "j", "e", "c", "t", " ",
                   "O", "b", "j", "e", "c", "t", "]" >>

RECURSIVE TrimStart(_)
TrimStart(str) ==
  IF str # <<>> /\ Head(str) = " " THEN TrimStart(Tail(str)) ELSE str

RECURSIVE TrimEnd(_)
TrimEnd(str) ==
  IF str # <<>> /\ str[Len(str)] = " "
  THEN TrimEnd(SubSeq(str, 1, Len(str) - 1))
  ELSE str

\* String.prototype.trim
Trim(str) == TrimEnd(TrimStart(str))

RECURSIVE Join(_, _)
\* Array.prototype.join of an array of strings
Join(strs, sep) ==
  IF strs = <<>> THEN <<>>
  ELSE IF Len(strs) = 1 THEN strs[1]
  ELSE strs[1] \o sep \o Join(Tail(strs), sep)

RECURSIVE DigitsToNat(_)
DigitsToNat(str) ==
  IF str = <<>> THEN 0
  ELSE 10 * DigitsToNat(SubSeq(str, 1, Len(str) - 1))
         + DigitValue(str[Len(str)])

NaN == [nan |-> TRUE, n |-> 0]
Finite(k) == [nan |-> FALSE, n |-> k]

\* the number a string converts to: blank is 0, an optionally signed run of
\* digits is its value, any other text of the model's strings is NaN
StringToNumber(str) ==
  LET body == Trim(str)
      signed == body # <<>> /\ Head(body) \in {"-", "+"}
      digits == IF signed THEN Tail(body) ELSE body
  IN  IF body = <<>> THEN Finite(0)
      ELSE IF digits # <<>> /\ \A i \in 1..Len(digits) : IsDigit(digits[i])
      THEN Finite(IF signed /\ Head(body) = "-"
                  THEN 0 - DigitsToNat(digits) ELSE DigitsToNat(digits))
      ELSE NaN

\* ToPrimitive(v, number) followed by nothing: an object becomes its string
ToPrimitive(v) == IF v.t = "object" THEN Str(StringOf(v)) ELSE v

\* ToNumber of a primitive
ToNumber(v) ==
  CASE v.t = "undefined" -> NaN
    [] v.t = "null" -> Finite(0)
    [] v.t = "number" -> Finite(v.n)
    [] OTHER -> StringToNumber(v.s)

RECURSIVE StringLess(_, _)
\* the code-unit order of two strings
StringLess(a, b) ==
  IF b = <<>> THEN FALSE
  ELSE IF a = <<>> THEN TRUE
  ELSE IF Head(a) = Head(b) THEN StringLess(Tail(a), Tail(b))
  ELSE CharCode(Head(a)) < CharCode(Head(b))

\* a < b
JsLess(a, b) ==
  LET pa == ToPrimitive(a)
      pb == ToPrimitive(b)
  IN  IF pa.t = "string" /\ pb.t = "string" THEN StringLess(pa.s, pb.s)
      ELSE LET na == ToNumber(pa)
               nb == ToNumber(pb)
           IN  ~na.nan /\ ~nb.nan /\ na.n < nb.n

\* a ?? b
Coalesce(a, b) == IF a.t \in {"undefined", "null"} THEN b ELSE a

(***************************************************************************)
(* Row normalizer.                                                         *)
(***************************************************************************)
RECURSIVE SelectSeqOf(_, _)
\* Array.prototype.filter with the predicate given as the set it accepts
SelectSeqOf(seq, kept) ==
  IF seq = <<>> THEN <<>>
  ELSE IF Head(seq) \in kept THEN <<Head(seq)>> \o SelectSeqOf(Tail(seq), kept)
  ELSE SelectSeqOf(Tail(seq), kept)

Range(seq) == {seq[i] : i \in 1..Len(seq)}

\* KeptRows without the filter(Boolean) step
KeptRowsTypeofOnly(data) ==
  IF ~data.isArray THEN <<>>
  ELSE SelectSeqOf(data.items,
                   {e \in Range(data.items) : TypeOf(e) = "object"})

\* manualRowData.filter(Boolean).filter((r) => typeof r === "object"), and
\* the empty array for a manualRowData that is not an array
KeptRows(data) ==
  IF ~data.isArray THEN <<>>
  ELSE LET truthy == SelectSeqOf(data.items,
                                 {e \in Range(data.items) : Truthy(e)})
       IN  SelectSeqOf(truthy, {e \in Range(truthy) : TypeOf(e) = "object"})

\* makeSafeId with the suffix counted on from the rows of the pages before
\* the one being shown
makeSafeIdFromPage(full, idx) ==
  LET rawId == Prop(full, "id")
      v1 == IF rawId.t # "undefined" /\ rawId.t # "null"
               /\ Trim(StringOf(rawId)) # <<>>
            THEN Trim(StringOf(rawId))
            ELSE <<>>
      candidates == [i \in 1..Len(FallbackFields) |->
                       Prop(full, FallbackFields[i])]
      present == SelectSeqOf(candidates,
                   {v \in Range(candidates) :
                      v.t # "undefined" /\ v.t # "null" /\ StringOf(v) # <<>>})
      v2 == Join([i \in 1..Len(present) |-> StringOf(present[i])], <<"-">>)
  IN  IF v1 # <<>> THEN v1
      ELSE v2 \o <<"-", "r", "o", "w">>
             \o NatToString(idx + (currentPage - 1) * rowsPerPage)

\* makeSafeId(full, idx), idx the zero-based position among the kept rows
makeSafeId(full, idx) ==
  LET rawId == Prop(full, "id")
      v1 == IF rawId.t # "undefined" /\ rawId.t # "null"
               /\ Trim(StringOf(rawId)) # <<>>
            THEN Trim(StringOf(rawId))
            ELSE <<>>
      candidates == [i \in 1..Len(FallbackFields) |->
                       Prop(full, FallbackFields[i])]
      present == SelectSeqOf(candidates,
                   {v \in Range(candidates) :
                      v.t # "undefined" /\ v.t # "null" /\ StringOf(v) # <<>>})
      v2 == Join([i \in 1..Len(present) |-> StringOf(present[i])], <<"-">>)
  IN  IF v1 # <<>> THEN v1
      ELSE v2 \o <<"-", "r", "o", "w">> \o NatToString(idx)

RowKeys(hdrs) ==
  {"id", "#", "_meta"} \cup {hdrs[i].accessor : i \in 1..Len(hdrs)}

\* NormalizeRow taking "#" from the raw row like any other accessor
NormalizeRowAssigningOrdinal(full, idx, hdrs) ==
  LET base == [k \in RowKeys(hdrs) |->
                 CASE k = "id" -> Str(makeSafeId(full, idx))
                   [] k = "#" -> Num(idx + 1)
                   [] k = "_meta" -> full
                   [] OTHER -> Undefined]
      assigned == {hdrs[i].accessor : i \in 1..Len(hdrs)} \ {"details_meta"}
  IN  [k \in RowKeys(hdrs) |->
         IF k \in assigned THEN Coalesce(Prop(full, k), Str(<<>>))
         ELSE base[k]]

\* the object one raw row is mapped to: id, "#" and _meta first, then one
\* assignment per header in header order, a later assignment to the same key
\* replacing the earlier value
NormalizeRow(full, idx, hdrs) ==
  LET base == [k \in RowKeys(hdrs) |->
                 CASE k = "id" -> Str(makeSafeId(full, idx))
                   [] k = "#" -> Num(idx + 1)
                   [] k = "_meta" -> full
                   [] OTHER -> Undefined]
      assigned == {hdrs[i].accessor : i \in 1..Len(hdrs)}
                    \ {"#", "details_meta"}
  IN  [k \in RowKeys(hdrs) |->
         IF k \in assigned THEN Coalesce(Prop(full, k), Str(<<>>))
         ELSE base[k]]

\* the rows memo
Rows(data, hdrs) ==
  LET src == KeptRows(data)
  IN  [i \in 1..Len(src) |-> NormalizeRow(src[i], i - 1, hdrs)]

(***************************************************************************)
(* Sort engine.                                                            *)
(***************************************************************************)
NoSort == [isNull |-> TRUE, key |-> "", direction |-> ""]

SortBy(key, direction) ==
  [isNull |-> FALSE, key |-> key, direction |-> direction]

\* a[key] of a normalized row
Cell(row, key) == IF key \in DOMAIN row THEN row[key] ELSE Undefined

\* the comparator handed to Array.prototype.sort
compareRows(a, b, cfg) ==
  LET aVal == Cell(a, cfg.key)
      bVal == Cell(b, cfg.key)
  IN  IF JsLess(aVal, bVal) THEN (IF cfg.direction = "asc" THEN -1 ELSE 1)
      ELSE IF JsLess(bVal, aVal) THEN (IF cfg.direction = "asc" THEN 1 ELSE -1)
      ELSE 0

Sign(k) == IF k < 0 THEN -1 ELSE IF k > 0 THEN 1 ELSE 0

\* ECMAScript's "consistent comparator" for the elements of one array, c the
\* table of the comparator's results
ConsistentComparator(c, n) ==
  /\ \A i \in 1..n : c[i][i] = 0
  /\ \A i, j \in 1..n : Sign(c[i][j]) = 0 - Sign(c[j][i])
  /\ \A i, j, k \in 1..n :
       /\ (c[i][j] = 0 /\ c[j][k] = 0) => c[i][k] = 0
       /\ (c[i][j] < 0 /\ c[j][k] < 0) => c[i][k] < 0
       /\ (c[i][j] > 0 /\ c[j][k] > 0) => c[i][k] > 0

\* the orders n elements can be put in
PermutationsOf(n) == Permutations(1..n)

\* the comparator's result for every pair of elements of the array
ComparatorTable(arr, cfg) ==
  [i \in 1..Len(arr) |->
     [j \in 1..Len(arr) |-> compareRows(arr[i], arr[j], cfg)]]

\* the arrays a sort of arr can produce, c the table of its comparator: the
\* stable sort of arr when the comparator is consistent on its elements, and
\* an order the engine is free to choose (still a permutation of arr) when it
\* is not
SortOutcomes(arr, c) ==
  LET n == Len(arr)
      stable(p) == \A i, j \in 1..n :
                     i < j => \/ c[p[i]][p[j]] < 0
                              \/ c[p[i]][p[j]] = 0 /\ p[i] < p[j]
      orders == IF ConsistentComparator(c, n)
                THEN {p \in PermutationsOf(n) : stable(p)}
                ELSE PermutationsOf(n)
  IN  {[i \in 1..n |-> arr[p[i]]] : p \in orders}

\* [...arr].sort(comparator), the comparator's table computed once
ArraySort(arr, cfg) ==
  UNION {SortOutcomes(arr, c) : c \in {ComparatorTable(arr, cfg)}}

\* SortedRows falling back to the id column when no key is set
SortedRowsDefaultingToId(rws, cfg) ==
  IF cfg.isNull \/ cfg.key = "" THEN ArraySort(rws, SortBy("id", "asc"))
  ELSE ArraySort(rws, cfg)

\* the sortedRows memo: the values it can take for these rows and this sort
SortedRows(rws, cfg) ==
  IF cfg.isNull \/ cfg.key = "" THEN {rws} ELSE ArraySort(rws, cfg)

(***************************************************************************)
(* Paginator.                                                              *)
(***************************************************************************)
\* CeilDiv rounding down
FloorDiv(a, b) == a \div b

\* Math.ceil(a / b) for a >= 0 and b >= 1
CeilDiv(a, b) == IF a % b = 0 THEN a \div b ELSE (a \div b) + 1

Min(a, b) == IF a < b THEN a ELSE b
Max(a, b) == IF a > b THEN a ELSE b

\* Array.prototype.slice(from, to) for 0 <= from <= to
Slice(arr, from, to) == SubSeq(arr, Min(from, Len(arr)) + 1, Min(to, Len(arr)))

\* EffectiveShouldPaginate without the shouldPaginate flag
EffectiveByCountOnly(paginate, count, size) == count > size

EffectiveShouldPaginate(paginate, count, size) == paginate /\ count > size

TotalPages(paginate, count, size) ==
  IF EffectiveShouldPaginate(paginate, count, size)
  THEN CeilDiv(count, size)
  ELSE 1

\* PaginatedRows with the slice starting one page late
PaginatedRowsOnePageLate(sorted, page, size, effective) ==
  IF ~effective THEN sorted
  ELSE LET startIndex == page * size
       IN  Slice(sorted, startIndex, startIndex + size)

PaginatedRows(sorted, page, size, effective) ==
  IF ~effective THEN sorted
  ELSE LET startIndex == (page - 1) * size
       IN  Slice(sorted, startIndex, startIndex + size)

(***************************************************************************)
(* Column width engine.  Widths, declared widths and minimum widths are    *)
(* primitives: undefined, a number of pixels or a string such as "80px".   *)
(***************************************************************************)
RECURSIVE DigitPrefix(_)
\* the leading decimal digits of a string
DigitPrefix(str) ==
  IF str # <<>> /\ IsDigit(Head(str))
  THEN <<Head(str)>> \o DigitPrefix(Tail(str))
  ELSE <<>>

\* parseFloat of a string of the model: leading blanks, an optional sign and
\* the longest run of digits; NaN when no digit follows
ParseFloat(str) ==
  LET body == TrimStart(str)
      signed == body # <<>> /\ Head(body) \in {"-", "+"}
      digits == DigitPrefix(IF signed THEN Tail(body) ELSE body)
  IN  IF digits = <<>> THEN NaN
      ELSE Finite(IF signed /\ Head(body) = "-"
                  THEN 0 - DigitsToNat(digits) ELSE DigitsToNat(digits))

\* parseWidthValue(value, fallback)
parseWidthValue(value, fallback) ==
  IF value.t = "number" THEN NumP(value.n)
  ELSE IF value.t = "string" /\ ~ParseFloat(value.s).nan
  THEN NumP(ParseFloat(value.s).n)
  ELSE fallback

\* Math.max(a, b)
MathMax(a, b) ==
  LET na == ToNumber(a)
      nb == ToNumber(b)
  IN  IF na.nan \/ nb.nan THEN NaN
      ELSE Finite(IF na.n > nb.n THEN na.n ELSE nb.n)

\* the template literal `${x}px` of a number x
TemplatePx(x) ==
  StrP((IF x.nan THEN <<"N", "a", "N">> ELSE StringOf(NumP(x.n)))
         \o <<"p", "x">>)

\* measureTextWidth(text): the width the environment measures for
\* String(text ?? ""), glyph per character
measureTextWidth(text, glyph) ==
  Len(StringOf(Coalesce(text, StrP(<<>>)))) * glyph

RECURSIVE MaxOver(_, _)
\* Math.max folded over a sequence of numbers, from a starting value
MaxOver(start, nums) ==
  IF nums = <<>> THEN start
  ELSE MaxOver(IF Head(nums) > start THEN Head(nums) ELSE start, Tail(nums))

\* UnseenRowsWidth over the rows of the visible page only
UnseenRowsWidthOfPage(maxWidth, rws, accessor, glyph) ==
  MaxOver(maxWidth,
          [i \in 1..Len(paginatedRows) |->
             measureTextWidth(Cell(paginatedRows[i], accessor), glyph)])

\* the rows.forEach of autoSizeColumn: maxWidth after the text of the column's
\* cell in each of the rows given
UnseenRowsWidth(maxWidth, rws, accessor, glyph) ==
  MaxOver(maxWidth,
          [i \in 1..Len(rws) |-> measureTextWidth(Cell(rws[i], accessor), glyph)])

\* the finalWidth autoSizeColumn computes for a header; domWidth is the widest
\* Math.ceil(scrollWidth + borderWidth) of the header cell and the body cells
\* in the document
AutoSizedWidth(header, rws, domWidth, glyph, minCol) ==
  LET label == IF Truthy(header.label) THEN header.label ELSE StrP(<<>>)
      labelWidth == measureTextWidth(label, glyph)
      cellsWidth == IF domWidth > labelWidth THEN domWidth ELSE labelWidth
      maxWidth == UnseenRowsWidth(cellsWidth, rws, header.accessor, glyph)
      minWidthPx == parseWidthValue(header.minWidth,
                                    parseWidthValue(minCol, NumP(50)))
  IN  MathMax(NumP(maxWidth + 12), minWidthPx)

\* the map with key set to value: { ...prev, [key]: value }
WithKey(prev, key, value) ==
  [k \in DOMAIN prev \cup {key} |-> IF k = key THEN value ELSE prev[k]]

\* the map after: delete next[key]
WithoutKey(prev, key) == [k \in DOMAIN prev \ {key} |-> prev[k]]

\* the seed effect's initialWidths: one assignment per header in header order
InitialWidths(hdrs) ==
  [a \in {hdrs[i].accessor : i \in 1..Len(hdrs)} |->
     LET last == CHOOSE i \in 1..Len(hdrs) :
                   /\ hdrs[i].accessor = a
                   /\ \A j \in (i + 1)..Len(hdrs) : hdrs[j].accessor # a
     IN  hdrs[last].width]

(***************************************************************************)
(* Preference store.  A stored text is absent, empty, not JSON, or the     *)
(* JSON text of a value.                                                   *)
(***************************************************************************)
AbsentText == [kind |-> "absent", value |-> Null]
EmptyText == [kind |-> "empty", value |-> Null]
InvalidText == [kind |-> "invalid", value |-> Null]
JsonText(value) == [kind |-> "json", value |-> value]

\* JSON.stringify of a width map: a property whose value is undefined is left
\* out
JsonStringify(widths) ==
  JsonText(Obj([k \in {a \in DOMAIN widths : widths[a].t # "undefined"} |->
                  widths[k]]))

\* loadStoredColumnWidths deciding by the declared width alone
loadStoredDeclaredOnly(fallback, key, st, throws) == fallback

\* loadStoredColumnWidths taking every stored entry, whatever its type
loadStoredAnyEntry(fallback, key, st, throws) ==
  IF ~key.given THEN fallback
  ELSE IF "getItem" \in throws THEN fallback
  ELSE LET raw == st[key.name]
       IN  IF raw.kind # "json" THEN fallback
           ELSE LET parsed == raw.value
                IN  IF ~Truthy(parsed) \/ TypeOf(parsed) # "object"
                    THEN fallback
                    ELSE [k \in DOMAIN fallback |->
                            LET val == Prop(parsed, k)
                            IN  IF TypeOf(val) # "undefined"
                                THEN [t |-> val.t, n |-> val.n, s |-> val.s]
                                ELSE fallback[k]]

\* loadStoredColumnWidths(fallback) under a storage key and a store, throws
\* the localStorage calls that throw: getItem throwing, like JSON.parse
\* throwing, ends in the catch
loadStoredColumnWidths(fallback, key, st, throws) ==
  IF ~key.given THEN fallback
  ELSE IF "getItem" \in throws THEN fallback
  ELSE LET raw == st[key.name]
       IN  IF raw.kind \in {"absent", "empty"} THEN fallback
           ELSE IF raw.kind = "invalid" THEN fallback
           ELSE LET parsed == raw.value
                IN  IF ~Truthy(parsed) \/ TypeOf(parsed) # "object"
                    THEN fallback
                    ELSE [k \in DOMAIN fallback |->
                            LET val == Prop(parsed, k)
                            IN  IF TypeOf(val) \in {"number", "string"}
                                THEN [t |-> val.t, n |-> val.n, s |-> val.s]
                                ELSE fallback[k]]

\* the persist effect calls setItem for this width map under this key
Writes(widths, key) == key.given /\ DOMAIN widths # {}

\* the persist effect writing nothing
PersistedNowhere(widths, key, st) == st

\* the store after the persist effect has run for a width map and setItem
\* has returned
Persisted(widths, key, st) ==
  IF ~Writes(widths, key) THEN st
  ELSE [st EXCEPT ![key.name] = JsonStringify(widths)]

\* what the seed effect reads under a key: nothing without a key, a throw,
\* or the text of the store
NotRead == [kind |-> "none", value |-> Null]
ThrownRead == [kind |-> "throws", value |-> Null]
ReadOf(key, st, throws) ==
  IF ~key.given THEN NotRead
  ELSE IF "getItem" \in throws THEN ThrownRead
  ELSE st[key.name]

(***************************************************************************)
(* The inputs of the model: raw rows, column definitions, initial sorts.   *)
(***************************************************************************)
\* { id: 1, v: "5", w: 3 }
RowA == Obj("id" :> NumP(1) @@ "v" :> StrP(<<"5">>) @@ "w" :> NumP(3))
\* { id: 2, v: "10", w: 20 }
RowB == Obj("id" :> NumP(2) @@ "v" :> StrP(<<"1", "0">>) @@ "w" :> NumP(20))
\* { order_id: "x", v: 7, w: "a" }
RowC == Obj("order_id" :> StrP(<<"x">>) @@ "v" :> NumP(7)
              @@ "w" :> StrP(<<"a">>))
\* { id: " 1 ", "#": 9, v: null }
RowDup == Obj("id" :> StrP(<<" ", "1", " ">>) @@ "#" :> NumP(9)
                @@ "v" :> NullP)
\* { id: "  ", order_id: "x", bom_id: 2 }
RowBlank == Obj("id" :> StrP(<<" ", " ">>) @@ "order_id" :> StrP(<<"x">>)
                  @@ "bom_id" :> NumP(2))

\* the entries of manualRowData the table controller is driven with
TableEntries == {RowA, RowC}

\* the entries of manualRowData the sort engine is driven with
SortEntries == {RowA, RowB, RowC}

\* the entries of manualRowData the normalizer is driven with
NormalizerEntries == {Null, Undefined, Num(5), RowA, RowDup, RowBlank}

NotArray == [isArray |-> FALSE, items |-> <<>>]

ArrayOf(items) == [isArray |-> TRUE, items |-> items]

\* every manualRowData of at most MaxRows entries, and one that is no array
RowDataOver(entries) ==
  {NotArray} \cup {ArrayOf(items) :
                     items \in UNION {[1..n -> entries] : n \in 0..MaxRows}}

\* a column definition with its label, declared width and minimum width
SizedColumn(accessor, isSortable, label, width, minWidth) ==
  [accessor |-> accessor, isSortable |-> isSortable, label |-> label,
   width |-> width, minWidth |-> minWidth]

\* a column definition that declares no label, width or minimum width
Column(accessor, isSortable) ==
  SizedColumn(accessor, isSortable, UndefP, UndefP, UndefP)

NoHeaders == [given |-> FALSE, cols |-> <<>>]

HeadersOf(cols) == [given |-> TRUE, cols |-> cols]

HeadersVW == HeadersOf(<<Column("v", TRUE), Column("w", TRUE)>>)

HeadersIdV == HeadersOf(<<Column("id", TRUE), Column("v", FALSE)>>)

HeadersReserved ==
  HeadersOf(<<Column("#", TRUE), Column("_meta", FALSE),
              Column("details_meta", FALSE)>>)

TableHeaderSets == {HeadersVW, HeadersIdV}

\* [{ accessor: "v", label: "v", isSortable: true, width: 80,
\*    minWidth: "20px" }, { accessor: "w", label: "qty" }]
SizedHeadersVW ==
  HeadersOf(<<SizedColumn("v", TRUE, StrP(<<"v">>), NumP(80),
                          StrP(<<"2", "0", "p", "x">>)),
              SizedColumn("w", FALSE, StrP(<<"q", "t", "y">>), UndefP,
                          UndefP)>>)

\* [{ accessor: "id", label: "id", isSortable: true, width: "120px",
\*    minWidth: 30 }, { accessor: "v", label: "", width: 90 }]
SizedHeadersIdV ==
  HeadersOf(<<SizedColumn("id", TRUE, StrP(<<"i", "d">>),
                          StrP(<<"1", "2", "0", "p", "x">>), NumP(30)),
              SizedColumn("v", FALSE, StrP(<<>>), NumP(90), UndefP)>>)

\* the column definitions the width engine is driven with
ColumnHeaderSets == {SizedHeadersVW, SizedHeadersIdV}

\* the manualRowData the width engine is driven with
ColumnData == ArrayOf(<<RowA, RowB, RowA>>)

\* the rowsPerPage the width engine is driven with: two pages of ColumnData
ColumnPageSize == 2

NormalizerHeaderSets == {NoHeaders, HeadersIdV, HeadersReserved}

\* rowsPerPage = 60 when the caller passes none
DefaultRowsPerPage == 60

PageSizes == 1..MaxPageSize

\* minColWidth = 50 when the caller passes none
DefaultMinColWidth == 50

\* mobileBreakpoint = 768 when the caller passes none
DefaultMobileBreakpoint == 768

\* window.innerWidth: a phone and a desktop
ViewportWidths == {400, 1024}

\* the width per character the 2d context measures; 0 when there is none
GlyphWidths == {0, 8}

\* the widest cell of the column in the document, as autoSizeColumn reads it
DomWidths == {0, 100}

\* clientX of the pointer events of a drag
PointerXs == {0, 40}

\* offsetWidth of the header cell at pointer-down
OffsetWidths == {60}

NoKey == [given |-> FALSE, name |-> ""]

StorageKey(name) == [given |-> TRUE, name |-> name]

\* the names under which the model's store holds text
StorageNames == {"k1", "k2"}

EmptyStore == [name \in StorageNames |-> AbsentText]

\* { "v": 33, "id": "44px", "w": null }
StoredWidths ==
  Obj("v" :> NumP(33) @@ "id" :> StrP(<<"4", "4", "p", "x">>) @@ "w" :> NullP)

\* the texts other code leaves in the store
ForeignTexts ==
  {AbsentText, EmptyText, InvalidText, JsonText(Null), JsonText(Num(7)),
   JsonText(StoredWidths)}

\* rowsPerPageOptions = [20, 50, 100]
DefaultRowsPerPageOptions == ArrayOf(<<20, 50, 100>>)

\* initialSort || null
InitialSorts ==
  {NoSort, SortBy("", "asc"), SortBy("v", "asc"), SortBy("w", "desc")}

\* the headers memo: manualHeaders || []
headers == IF manualHeaders.given THEN manualHeaders.cols ELSE <<>>

effectiveShouldPaginate ==
  EffectiveShouldPaginate(shouldPaginate, Len(sortedRows), rowsPerPage)

\* the Previous and Next buttons are in the rendered output
PageControlsShown ==
  /\ Len(sortedRows) # 0
  /\ shouldPaginate
  /\ totalPages > 1

\* the footer is in the rendered output
FooterShown ==
  /\ Len(sortedRows) # 0
  /\ \/ shouldPaginate /\ totalPages > 1
     \/ rowsPerPageOptions.isArray /\ Len(rowsPerPageOptions.items) # 0

\* the page-size selector is in the rendered output
SelectorShown ==
  /\ FooterShown
  /\ rowsPerPageOptions.isArray
  /\ Len(rowsPerPageOptions.items) > 0
  /\ onRowsPerPageChange

Op(name, key) == [op |-> name, key |-> key]

\* Render pulling a page beyond the last back to the last page
RenderClampingPage(page, renormalize, resort) ==
  /\ rows' = IF renormalize THEN Rows(manualRowData', headers') ELSE rows
  /\ sortedRows' \in IF resort THEN SortedRows(rows', sortConfig')
                               ELSE {sortedRows}
  /\ totalPages' = TotalPages(shouldPaginate', Len(sortedRows'), rowsPerPage')
  /\ currentPage' = IF page > totalPages' /\ totalPages' > 0
                    THEN totalPages' ELSE page
  /\ paginatedRows' =
       PaginatedRows(sortedRows', currentPage', rowsPerPage',
                     EffectiveShouldPaginate(shouldPaginate',
                                             Len(sortedRows'), rowsPerPage'))

\* Render without the reset of a page beyond the last
RenderKeepingPage(page, renormalize, resort) ==
  /\ rows' = IF renormalize THEN Rows(manualRowData', headers') ELSE rows
  /\ sortedRows' \in IF resort THEN SortedRows(rows', sortConfig')
                               ELSE {sortedRows}
  /\ totalPages' = TotalPages(shouldPaginate', Len(sortedRows'), rowsPerPage')
  /\ currentPage' = page
  /\ paginatedRows' =
       PaginatedRows(sortedRows', currentPage', rowsPerPage',
                     EffectiveShouldPaginate(shouldPaginate',
                                             Len(sortedRows'), rowsPerPage'))

(***************************************************************************)
(* The render pass that follows an event: props and sortConfig have their  *)
(* new values, `page' is currentPage as the event left it.  A memo is     *)
(* recomputed when a dependency is a new object (`renormalize':            *)
(* manualRowData or headers; `resort': rows or sortConfig), and a          *)
(* currentPage beyond totalPages is set to 1, which renders once more.     *)
(***************************************************************************)
Render(page, renormalize, resort) ==
  /\ rows' = IF renormalize THEN Rows(manualRowData', headers') ELSE rows
  /\ sortedRows' \in IF resort THEN SortedRows(rows', sortConfig')
                               ELSE {sortedRows}
  /\ totalPages' = TotalPages(shouldPaginate', Len(sortedRows'), rowsPerPage')
  /\ currentPage' = IF page > totalPages' /\ totalPages' > 0 THEN 1 ELSE page
  /\ paginatedRows' =
       PaginatedRows(sortedRows', currentPage', rowsPerPage',
                     EffectiveShouldPaginate(shouldPaginate',
                                             Len(sortedRows'), rowsPerPage'))

\* the state after mount: first render, then the effects
Mount(datas, headerSets, sorts, sizes, flags) ==
  /\ manualRowData \in datas
  /\ manualHeaders \in headerSets
  /\ rowsPerPage \in sizes
  /\ shouldPaginate \in flags
  /\ sortConfig \in sorts
  /\ currentPage = 1
  /\ rows = Rows(manualRowData, headers)
  /\ sortedRows \in SortedRows(rows, sortConfig)
  /\ totalPages = TotalPages(shouldPaginate, Len(sortedRows), rowsPerPage)
  /\ paginatedRows =
       PaginatedRows(sortedRows, currentPage, rowsPerPage,
                     effectiveShouldPaginate)
  /\ lastOp = Op("mount", "")
  /\ pageBefore = 1

\* the props of the footer as the caller mounts the table
MountFooter(callbacks, optionSets) ==
  /\ onRowsPerPageChange \in callbacks
  /\ rowsPerPageOptions \in optionSets

\* the breakpoint the caller mounts the table with, and the resize effect
\* of the mount
MountViewport(breakpoints) ==
  /\ mobileBreakpoint \in breakpoints
  /\ resizeListeners = 1
  /\ mounted = TRUE

\* the column state after mount: isMobile from the viewport, the seed effect
\* over the store as mount found it, then the persist effect
MountColumns(minWidths, autoSizeFlags, keys, stores, viewports, glyphs, fails) ==
  /\ minColWidth \in minWidths
  /\ mobileAutoSizeOnHeaderClick \in autoSizeFlags
  /\ columnWidthsStorageKey \in keys
  /\ innerWidth \in viewports
  /\ glyphWidth \in glyphs
  /\ isMobile = (innerWidth < mobileBreakpoint)
  /\ initialColumnWidthsRef = InitialWidths(headers)
  /\ expandedColumns = {}
  /\ dragSessions = <<>>
  /\ tapBefore = FALSE
  /\ storageThrows \in fails
  /\ \E found \in stores :
       /\ seedFound = ReadOf(columnWidthsStorageKey, found, storageThrows)
       /\ columnWidths =
            loadStoredColumnWidths(InitialWidths(headers),
                                   columnWidthsStorageKey, found,
                                   storageThrows)
       /\ thrown = (/\ Writes(columnWidths, columnWidthsStorageKey)
                    /\ "setItem" \in storageThrows)
       /\ store = IF thrown THEN found
                  ELSE Persisted(columnWidths, columnWidthsStorageKey, found)

(***************************************************************************)
(* Events.                                                                 *)
(***************************************************************************)
\* NextSortConfig toggling whatever column was sorted before
NextSortConfigAnyKey(cfg, key) ==
  IF ~cfg.isNull /\ cfg.direction = "asc"
  THEN SortBy(key, "desc")
  ELSE SortBy(key, "asc")

\* the sortConfig handleSort sets for a sortable key
NextSortConfig(cfg, key) ==
  IF ~cfg.isNull /\ cfg.key = key /\ cfg.direction = "asc"
  THEN SortBy(key, "desc")
  ELSE SortBy(key, "asc")

\* handleSort leaving the page where it is
handleSortKeepingPage(i) ==
  /\ i \in 1..Len(headers)
  /\ lastOp' = Op("click", headers[i].accessor)
  /\ ~thrown
  /\ mounted
  /\ pageBefore' = currentPage
  /\ UNCHANGED <<manualRowData, manualHeaders, rowsPerPage, shouldPaginate>>
  /\ UNCHANGED columnVars
  /\ IF ~headers[i].isSortable
     THEN UNCHANGED <<sortConfig, currentPage, rows, sortedRows, totalPages,
                      paginatedRows>>
     ELSE /\ sortConfig' = NextSortConfig(sortConfig, headers[i].accessor)
          /\ Render(currentPage, FALSE, TRUE)

\* handleSort sorting by any column, sortable or not
handleSortAnyColumn(i) ==
  /\ i \in 1..Len(headers)
  /\ lastOp' = Op("click", headers[i].accessor)
  /\ ~thrown
  /\ mounted
  /\ pageBefore' = currentPage
  /\ UNCHANGED <<manualRowData, manualHeaders, rowsPerPage, shouldPaginate>>
  /\ UNCHANGED columnVars
  /\ sortConfig' = NextSortConfig(sortConfig, headers[i].accessor)
  /\ Render(1, FALSE, TRUE)

\* a click on the header of column i, outside tap-to-expand mode:
\* handleSort(header.accessor, header.isSortable)
handleSort(i) ==
  /\ i \in 1..Len(headers)
  /\ lastOp' = Op("click", headers[i].accessor)
  /\ ~thrown
  /\ mounted
  /\ pageBefore' = currentPage
  /\ UNCHANGED <<manualRowData, manualHeaders, rowsPerPage, shouldPaginate>>
  /\ UNCHANGED columnVars
  /\ IF ~headers[i].isSortable
     THEN UNCHANGED <<sortConfig, currentPage, rows, sortedRows, totalPages,
                      paginatedRows>>
     ELSE /\ sortConfig' = NextSortConfig(sortConfig, headers[i].accessor)
          /\ Render(1, FALSE, TRUE)

\* the persist effect after a change of the width map, under the storage
\* key of the render and over the store st it finds: setItem has no try
\* around it, so a throw leaves the effect
PersistEffect(key, st) ==
  IF Writes(columnWidths', key) /\ "setItem" \in storageThrows
  THEN /\ thrown' = TRUE
       /\ store' = st
  ELSE /\ thrown' = FALSE
       /\ store' = Persisted(columnWidths', key, st)

\* resetColumnWidth keeping an entry for a column that declares no width
resetColumnWidthKeepingEntry(prev, declared, accessor) ==
  WithKey(prev, accessor,
          IF accessor \in DOMAIN declared THEN declared[accessor] ELSE UndefP)

\* resetColumnWidth(accessor): the width map it leaves
resetColumnWidth(prev, declared, accessor) ==
  LET regularWidth == IF accessor \in DOMAIN declared
                      THEN declared[accessor] ELSE UndefP
  IN  IF regularWidth.t = "undefined" THEN WithoutKey(prev, accessor)
      ELSE WithKey(prev, accessor, regularWidth)

\* autoSizeColumn giving the column the width it declares
autoSizeColumnToDeclared(prev, header, domWidth) ==
  WithKey(prev, header.accessor, header.width)

\* autoSizeColumn(colIndex, header): the width map it leaves; the table
\* element is mounted whenever a header can be clicked
autoSizeColumn(prev, header, domWidth) ==
  WithKey(prev, header.accessor,
          TemplatePx(AutoSizedWidth(header, rows, domWidth, glyphWidth,
                                    minColWidth)))

\* the tap-to-expand branch of handleHeaderClick, then the persist effect
toggleExpanded(i, domWidth) ==
  /\ ~thrown
  /\ mounted
  /\ pageBefore' = currentPage
  /\ UNCHANGED tableVars
  /\ UNCHANGED viewportVars
  /\ UNCHANGED toggleVars
  /\ UNCHANGED <<onRowsPerPageChange, rowsPerPageOptions, storageThrows>>
  /\ UNCHANGED <<minColWidth, mobileAutoSizeOnHeaderClick,
                 columnWidthsStorageKey, initialColumnWidthsRef, isMobile,
                 dragSessions, innerWidth, glyphWidth>>
  /\ IF headers[i].accessor \in expandedColumns
     THEN /\ lastOp' = Op("collapse", headers[i].accessor)
          /\ columnWidths' =
               resetColumnWidth(columnWidths, initialColumnWidthsRef,
                                headers[i].accessor)
          /\ expandedColumns' = expandedColumns \ {headers[i].accessor}
     ELSE /\ lastOp' = Op("expand", headers[i].accessor)
          /\ columnWidths' = autoSizeColumn(columnWidths, headers[i], domWidth)
          /\ expandedColumns' = expandedColumns \cup {headers[i].accessor}
  /\ PersistEffect(columnWidthsStorageKey, store)
  /\ seedFound' = NotRead
  /\ tapBefore' = (/\ lastOp.op \in {"expand", "collapse"}
                   /\ lastOp.key = headers[i].accessor)

\* the header row is in the rendered output
HeaderShown == Len(sortedRows) # 0

\* handleHeaderClick dispatching every click to handleSort
handleHeaderClickSortOnly(i, domWidth) ==
  /\ HeaderShown
  /\ i \in 1..Len(headers)
  /\ handleSort(i)

\* a click on the header of column i
handleHeaderClick(i, domWidth) ==
  /\ HeaderShown
  /\ i \in 1..Len(headers)
  /\ IF mobileAutoSizeOnHeaderClick /\ isMobile
     THEN toggleExpanded(i, domWidth)
     ELSE handleSort(i)

\* the resize listener of the window
handleResize(width) ==
  /\ width # innerWidth
  /\ innerWidth' = width
  /\ isMobile' = (width < mobileBreakpoint)
  /\ lastOp' = Op("resize", "")
  /\ ~thrown
  /\ mounted
  /\ pageBefore' = currentPage
  /\ UNCHANGED tableVars
  /\ UNCHANGED viewportVars
  /\ UNCHANGED toggleVars
  /\ UNCHANGED <<onRowsPerPageChange, rowsPerPageOptions, storageThrows,
                 thrown>>
  /\ seedFound' = NotRead
  /\ tapBefore' = FALSE
  /\ UNCHANGED <<minColWidth, mobileAutoSizeOnHeaderClick,
                 columnWidthsStorageKey, columnWidths, expandedColumns,
                 initialColumnWidthsRef, dragSessions, store, glyphWidth>>

\* the caller passes another mobileBreakpoint: the effect keyed on
\* [mobileBreakpoint] removes its listener and adds one that compares with
\* the new breakpoint; nothing calls setIsMobile
SetMobileBreakpoint(breakpoint) ==
  /\ breakpoint # mobileBreakpoint
  /\ mobileBreakpoint' = breakpoint
  /\ resizeListeners' = (resizeListeners - 1) + 1
  /\ lastOp' = Op("mobileBreakpoint", "")
  /\ ~thrown
  /\ mounted
  /\ pageBefore' = currentPage
  /\ UNCHANGED tableVars
  /\ UNCHANGED toggleVars
  /\ UNCHANGED <<mounted, onRowsPerPageChange, rowsPerPageOptions,
                 storageThrows, thrown>>
  /\ seedFound' = NotRead
  /\ tapBefore' = FALSE
  /\ UNCHANGED <<minColWidth, mobileAutoSizeOnHeaderClick,
                 columnWidthsStorageKey, columnWidths, expandedColumns,
                 initialColumnWidthsRef, isMobile, dragSessions, innerWidth,
                 store, glyphWidth>>

\* the caller unmounts the table: the cleanup of the resize effect removes
\* its listener
Unmount ==
  /\ mounted
  /\ ~thrown
  /\ mounted' = FALSE
  /\ resizeListeners' = resizeListeners - 1
  /\ lastOp' = Op("unmount", "")
  /\ pageBefore' = currentPage
  /\ UNCHANGED tableVars
  /\ UNCHANGED toggleVars
  /\ UNCHANGED <<mobileBreakpoint, onRowsPerPageChange, rowsPerPageOptions,
                 storageThrows, thrown, seedFound, tapBefore>>
  /\ UNCHANGED <<minColWidth, mobileAutoSizeOnHeaderClick,
                 columnWidthsStorageKey, columnWidths, expandedColumns,
                 initialColumnWidthsRef, isMobile, dragSessions, innerWidth,
                 store, glyphWidth>>

\* handleMouseDown: parseWidthValue(header?.minWidth, minColWidth) for the
\* first header with the accessor
minResizeWidth(hdrs, accessor, minCol) ==
  LET found == {i \in 1..Len(hdrs) : hdrs[i].accessor = accessor}
      first == CHOOSE i \in found : \A j \in found : i <= j
  IN  parseWidthValue(IF found = {} THEN UndefP ELSE hdrs[first].minWidth,
                      minCol)

\* pointer-down on the resizer of column i at clientX x, the header cell
\* offsetWidth wide: one more pair of listeners on the document
handleMouseDown(i, x, offsetWidth) ==
  /\ HeaderShown
  /\ i \in 1..Len(headers)
  /\ Len(dragSessions) < MaxSessions
  /\ dragSessions' =
       Append(dragSessions,
              [accessor |-> headers[i].accessor, startX |-> x,
               startWidth |-> offsetWidth,
               minResizeWidth |->
                 minResizeWidth(headers, headers[i].accessor, minColWidth)])
  /\ lastOp' = Op("mousedown", headers[i].accessor)
  /\ ~thrown
  /\ mounted
  /\ pageBefore' = currentPage
  /\ UNCHANGED tableVars
  /\ UNCHANGED viewportVars
  /\ UNCHANGED toggleVars
  /\ UNCHANGED <<onRowsPerPageChange, rowsPerPageOptions, storageThrows,
                 thrown>>
  /\ seedFound' = NotRead
  /\ tapBefore' = FALSE
  /\ UNCHANGED <<minColWidth, mobileAutoSizeOnHeaderClick,
                 columnWidthsStorageKey, columnWidths, expandedColumns,
                 initialColumnWidthsRef, isMobile, innerWidth, store,
                 glyphWidth>>

RECURSIVE MovedWidthsUnclamped(_, _, _)
\* MovedWidths with no floor under the new width
MovedWidthsUnclamped(prev, sessions, x) ==
  IF sessions = <<>> THEN prev
  ELSE LET session == Head(sessions)
           newWidth == session.startWidth + (x - session.startX)
       IN  MovedWidthsUnclamped(
             WithKey(prev, session.accessor, TemplatePx(Finite(newWidth))),
             Tail(sessions), x)

RECURSIVE MovedWidths(_, _, _)
\* the width map after the handleMouseMove of every listener pair, in the
\* order the pairs were attached
MovedWidths(prev, sessions, x) ==
  IF sessions = <<>> THEN prev
  ELSE LET session == Head(sessions)
           newWidth == session.startWidth + (x - session.startX)
           finalWidth == MathMax(NumP(newWidth), session.minResizeWidth)
       IN  MovedWidths(WithKey(prev, session.accessor, TemplatePx(finalWidth)),
                       Tail(sessions), x)

\* a mousemove on the document at clientX x, then the persist effect
handleMouseMove(x) ==
  /\ dragSessions # <<>>
  /\ columnWidths' = MovedWidths(columnWidths, dragSessions, x)
  /\ PersistEffect(columnWidthsStorageKey, store)
  /\ seedFound' = NotRead
  /\ tapBefore' = FALSE
  /\ lastOp' = Op("mousemove", "")
  /\ ~thrown
  /\ mounted
  /\ pageBefore' = currentPage
  /\ UNCHANGED tableVars
  /\ UNCHANGED viewportVars
  /\ UNCHANGED toggleVars
  /\ UNCHANGED <<onRowsPerPageChange, rowsPerPageOptions, storageThrows>>
  /\ UNCHANGED <<minColWidth, mobileAutoSizeOnHeaderClick,
                 columnWidthsStorageKey, expandedColumns,
                 initialColumnWidthsRef, isMobile, dragSessions, innerWidth,
                 glyphWidth>>

\* a mouseup on the document: every pair removes its listeners
handleMouseUp ==
  /\ dragSessions # <<>>
  /\ dragSessions' = <<>>
  /\ lastOp' = Op("mouseup", "")
  /\ ~thrown
  /\ mounted
  /\ pageBefore' = currentPage
  /\ UNCHANGED tableVars
  /\ UNCHANGED viewportVars
  /\ UNCHANGED toggleVars
  /\ UNCHANGED <<onRowsPerPageChange, rowsPerPageOptions, storageThrows,
                 thrown>>
  /\ seedFound' = NotRead
  /\ tapBefore' = FALSE
  /\ UNCHANGED <<minColWidth, mobileAutoSizeOnHeaderClick,
                 columnWidthsStorageKey, columnWidths, expandedColumns,
                 initialColumnWidthsRef, isMobile, innerWidth, store,
                 glyphWidth>>

\* the Previous button
PreviousPage ==
  /\ PageControlsShown
  /\ lastOp' = Op("previous", "")
  /\ ~thrown
  /\ mounted
  /\ pageBefore' = currentPage
  /\ UNCHANGED <<manualRowData, manualHeaders, rowsPerPage, shouldPaginate,
                 sortConfig>>
  /\ UNCHANGED columnVars
  /\ Render(Max(1, currentPage - 1), FALSE, FALSE)

\* NextPage with no upper limit
NextPageUnclamped ==
  /\ PageControlsShown
  /\ lastOp' = Op("next", "")
  /\ ~thrown
  /\ mounted
  /\ pageBefore' = currentPage
  /\ UNCHANGED <<manualRowData, manualHeaders, rowsPerPage, shouldPaginate,
                 sortConfig>>
  /\ UNCHANGED columnVars
  /\ Render(currentPage + 1, FALSE, FALSE)

\* the Next button
NextPage ==
  /\ PageControlsShown
  /\ lastOp' = Op("next", "")
  /\ ~thrown
  /\ mounted
  /\ pageBefore' = currentPage
  /\ UNCHANGED <<manualRowData, manualHeaders, rowsPerPage, shouldPaginate,
                 sortConfig>>
  /\ UNCHANGED columnVars
  /\ Render(Min(totalPages, currentPage + 1), FALSE, FALSE)

\* SetRowsPerPage without the [rowsPerPage] effect
SetRowsPerPageNoEffect(size) ==
  /\ size # rowsPerPage
  /\ rowsPerPage' = size
  /\ lastOp' = Op("rowsPerPage", "")
  /\ ~thrown
  /\ mounted
  /\ pageBefore' = currentPage
  /\ UNCHANGED <<manualRowData, manualHeaders, shouldPaginate, sortConfig>>
  /\ UNCHANGED columnVars
  /\ Render(currentPage, FALSE, FALSE)

\* the caller passes another rowsPerPage; the [rowsPerPage] effect runs
SetRowsPerPage(size) ==
  /\ size # rowsPerPage
  /\ rowsPerPage' = size
  /\ lastOp' = Op("rowsPerPage", "")
  /\ ~thrown
  /\ mounted
  /\ pageBefore' = currentPage
  /\ UNCHANGED <<manualRowData, manualHeaders, shouldPaginate, sortConfig>>
  /\ UNCHANGED columnVars
  /\ Render(1, FALSE, FALSE)

\* the user picks an option of the page-size selector: the table calls
\* onRowsPerPageChange(Number(e.target.value)) and the caller passes the
\* number back as rowsPerPage
selectRowsPerPage(k) ==
  /\ SelectorShown
  /\ k \in 1..Len(rowsPerPageOptions.items)
  /\ SetRowsPerPage(rowsPerPageOptions.items[k])

\* the caller passes the other shouldPaginate
SetShouldPaginate ==
  /\ shouldPaginate' = ~shouldPaginate
  /\ lastOp' = Op("shouldPaginate", "")
  /\ ~thrown
  /\ mounted
  /\ pageBefore' = currentPage
  /\ UNCHANGED <<manualRowData, manualHeaders, rowsPerPage, sortConfig>>
  /\ UNCHANGED columnVars
  /\ Render(currentPage, FALSE, FALSE)

\* the arrays a data refresh of the model replaces manualRowData with: the
\* array cut after any of its entries, or with one more entry at its end
Refreshes(data, entries) ==
  {ArrayOf(SubSeq(data.items, 1, n)) : n \in 0..Len(data.items)}
    \cup {ArrayOf(Append(data.items, e)) :
            e \in IF Len(data.items) < MaxRows THEN entries ELSE {}}

\* SetRowData going back to the first page
SetRowDataResettingPage(data) ==
  /\ manualRowData' = data
  /\ lastOp' = Op("rowData", "")
  /\ ~thrown
  /\ mounted
  /\ pageBefore' = currentPage
  /\ UNCHANGED <<manualHeaders, rowsPerPage, shouldPaginate, sortConfig>>
  /\ UNCHANGED columnVars
  /\ Render(1, TRUE, TRUE)

\* the caller passes another manualRowData
SetRowData(data) ==
  /\ manualRowData' = data
  /\ lastOp' = Op("rowData", "")
  /\ ~thrown
  /\ mounted
  /\ pageBefore' = currentPage
  /\ UNCHANGED <<manualHeaders, rowsPerPage, shouldPaginate, sortConfig>>
  /\ UNCHANGED columnVars
  /\ Render(currentPage, TRUE, TRUE)

\* SeedColumnWidths leaving the expanded set as it is
SeedColumnWidthsKeepingExpanded ==
  /\ initialColumnWidthsRef' = InitialWidths(headers')
  /\ seedFound' = ReadOf(columnWidthsStorageKey', store, storageThrows)
  /\ tapBefore' = FALSE
  /\ columnWidths' =
       loadStoredColumnWidths(InitialWidths(headers'),
                              columnWidthsStorageKey', store, storageThrows)
  /\ expandedColumns' = expandedColumns
  /\ thrown' = FALSE
  /\ store' = Persisted(columnWidths', columnWidthsStorageKey',
                        Persisted(columnWidths, columnWidthsStorageKey',
                                  store))

\* the effect keyed on [headers, columnWidthsStorageKey]: it reads the store
\* before the persist effect of the same commit writes the width map of the
\* render under a storage key that is new, and the persist effect runs once
\* more for the seeded width map
SeedColumnWidths ==
  /\ initialColumnWidthsRef' = InitialWidths(headers')
  /\ seedFound' = ReadOf(columnWidthsStorageKey', store, storageThrows)
  /\ tapBefore' = FALSE
  /\ columnWidths' =
       loadStoredColumnWidths(InitialWidths(headers'),
                              columnWidthsStorageKey', store, storageThrows)
  /\ expandedColumns' = {}
  /\ LET stale == /\ columnWidthsStorageKey' # columnWidthsStorageKey
                  /\ Writes(columnWidths, columnWidthsStorageKey')
     IN  IF stale /\ "setItem" \in storageThrows
         THEN /\ thrown' = TRUE
              /\ store' = store
         ELSE PersistEffect(columnWidthsStorageKey',
                            IF stale
                            THEN Persisted(columnWidths,
                                           columnWidthsStorageKey', store)
                            ELSE store)

\* the caller passes other column definitions
SetHeaders(hdrs) ==
  /\ hdrs # manualHeaders
  /\ manualHeaders' = hdrs
  /\ lastOp' = Op("headers", "")
  /\ ~thrown
  /\ mounted
  /\ pageBefore' = currentPage
  /\ UNCHANGED <<manualRowData, rowsPerPage, shouldPaginate, sortConfig>>
  /\ UNCHANGED viewportVars
  /\ UNCHANGED toggleVars
  /\ UNCHANGED <<onRowsPerPageChange, rowsPerPageOptions, storageThrows>>
  /\ UNCHANGED <<minColWidth, mobileAutoSizeOnHeaderClick,
                 columnWidthsStorageKey, isMobile, dragSessions, innerWidth,
                 glyphWidth>>
  /\ Render(currentPage, TRUE, TRUE)
  /\ SeedColumnWidths

\* the caller renders again with another manualRowData and with a
\* manualHeaders array it builds anew from the same definitions, as a
\* component does that declares its headers in its body: the headers memo
\* and the effects keyed on headers see a new array
SetRowDataWithFreshHeaders(data) ==
  /\ manualRowData' = data
  /\ manualHeaders' = manualHeaders
  /\ lastOp' = Op("rowData", "manualHeaders")
  /\ ~thrown
  /\ mounted
  /\ pageBefore' = currentPage
  /\ UNCHANGED <<rowsPerPage, shouldPaginate, sortConfig>>
  /\ UNCHANGED viewportVars
  /\ UNCHANGED toggleVars
  /\ UNCHANGED <<onRowsPerPageChange, rowsPerPageOptions, storageThrows>>
  /\ UNCHANGED <<minColWidth, mobileAutoSizeOnHeaderClick,
                 columnWidthsStorageKey, isMobile, dragSessions, innerWidth,
                 glyphWidth>>
  /\ Render(currentPage, TRUE, TRUE)
  /\ SeedColumnWidths

\* the caller passes another columnWidthsStorageKey
SetStorageKey(key) ==
  /\ key # columnWidthsStorageKey
  /\ columnWidthsStorageKey' = key
  /\ lastOp' = Op("storageKey", "")
  /\ ~thrown
  /\ mounted
  /\ pageBefore' = currentPage
  /\ UNCHANGED tableVars
  /\ UNCHANGED viewportVars
  /\ UNCHANGED toggleVars
  /\ UNCHANGED <<onRowsPerPageChange, rowsPerPageOptions, storageThrows>>
  /\ UNCHANGED <<minColWidth, mobileAutoSizeOnHeaderClick, isMobile,
                 dragSessions, innerWidth, glyphWidth>>
  /\ SeedColumnWidths

\* other code of the page, or another tab, stores a text under a name
ForeignSetItem(name, text) ==
  /\ store[name] # text
  /\ store' = [store EXCEPT ![name] = text]
  /\ lastOp' = Op("setItem", name)
  /\ ~thrown
  /\ mounted
  /\ pageBefore' = currentPage
  /\ UNCHANGED tableVars
  /\ UNCHANGED viewportVars
  /\ UNCHANGED toggleVars
  /\ UNCHANGED <<onRowsPerPageChange, rowsPerPageOptions, storageThrows,
                 thrown>>
  /\ seedFound' = NotRead
  /\ tapBefore' = FALSE
  /\ UNCHANGED <<minColWidth, mobileAutoSizeOnHeaderClick,
                 columnWidthsStorageKey, columnWidths, expandedColumns,
                 initialColumnWidthsRef, isMobile, dragSessions, innerWidth,
                 glyphWidth>>

\* the browser starts or stops refusing calls of localStorage (storage
\* denied, quota exceeded)
StorageFails(ops) ==
  /\ ops # storageThrows
  /\ storageThrows' = ops
  /\ lastOp' = Op("storage", "")
  /\ ~thrown
  /\ mounted
  /\ pageBefore' = currentPage
  /\ UNCHANGED tableVars
  /\ UNCHANGED viewportVars
  /\ UNCHANGED toggleVars
  /\ UNCHANGED <<onRowsPerPageChange, rowsPerPageOptions, thrown>>
  /\ seedFound' = NotRead
  /\ tapBefore' = FALSE
  /\ UNCHANGED <<minColWidth, mobileAutoSizeOnHeaderClick,
                 columnWidthsStorageKey, columnWidths, expandedColumns,
                 initialColumnWidthsRef, isMobile, dragSessions, innerWidth,
                 store, glyphWidth>>

(***************************************************************************)
(* ColumnVisibilityToggle.                                                 *)
(***************************************************************************)
NotStored == [kind |-> "absent", columns |-> <<>>]

\* JSON.stringify(columns) as the text of the store
StoredList(columns) == [kind |-> "json", columns |-> columns]

NotReported == [called |-> FALSE, columns |-> <<>>, again |-> FALSE]

\* the toggle as the caller mounts it, the menu closed
MountToggle(available, visibles, keys) ==
  /\ availableColumns = available
  /\ visibleColumns \in visibles
  /\ visibilityStorageKey \in keys
  /\ isOpen = FALSE
  /\ storedColumns = NotStored
  /\ reported = NotReported

\* a page without a ColumnVisibilityToggle
NoToggle == MountToggle(<<>>, {<<>>}, {NoKey})

\* what an event of the toggle leaves alone
ToggleFrame ==
  /\ ~thrown
  /\ mounted
  /\ pageBefore' = currentPage
  /\ seedFound' = NotRead
  /\ tapBefore' = FALSE
  /\ UNCHANGED tableVars
  /\ UNCHANGED viewportVars
  /\ UNCHANGED <<availableColumns, visibilityStorageKey>>
  /\ UNCHANGED <<onRowsPerPageChange, rowsPerPageOptions, storageThrows,
                 thrown>>
  /\ UNCHANGED <<minColWidth, mobileAutoSizeOnHeaderClick,
                 columnWidthsStorageKey, columnWidths, expandedColumns,
                 initialColumnWidthsRef, isMobile, dragSessions, innerWidth,
                 store, glyphWidth>>

\* the Columns button: setIsOpen(!isOpen)
toggleMenu ==
  /\ isOpen' = ~isOpen
  /\ lastOp' = Op("menu", "")
  /\ reported' = [reported EXCEPT !.again = FALSE]
  /\ UNCHANGED <<visibleColumns, storedColumns>>
  /\ ToggleFrame

\* a mousedown outside the open menu
handleClickOutside ==
  /\ isOpen
  /\ isOpen' = FALSE
  /\ lastOp' = Op("clickOutside", "")
  /\ reported' = [reported EXCEPT !.again = FALSE]
  /\ UNCHANGED <<visibleColumns, storedColumns>>
  /\ ToggleFrame

\* saveToStorage(columns): the text under the storage key afterwards
saveToStorage(columns) ==
  IF visibilityStorageKey.given /\ "setItem" \notin storageThrows
  THEN StoredList(columns)
  ELSE storedColumns

\* saveToStorage(columns) then onColumnsChange(columns), and the caller
\* passing the list back as visibleColumns
ReportColumns(columns) ==
  /\ storedColumns' = saveToStorage(columns)
  /\ reported' = [called |-> TRUE, columns |-> columns,
                  again |-> (lastOp' = lastOp)]
  /\ visibleColumns' = columns
  /\ UNCHANGED isOpen
  /\ ToggleFrame

\* handleToggleColumn appending the key whether it is visible or not
handleToggleColumnAppending(k) ==
  /\ isOpen
  /\ k \in 1..Len(availableColumns)
  /\ lastOp' = Op("toggleColumn", availableColumns[k].key)
  /\ ReportColumns(Append(visibleColumns, availableColumns[k].key))

\* the checkbox of the k-th available column
handleToggleColumn(k) ==
  /\ isOpen
  /\ k \in 1..Len(availableColumns)
  /\ lastOp' = Op("toggleColumn", availableColumns[k].key)
  /\ LET columnKey == availableColumns[k].key
         newVisibleColumns ==
           IF columnKey \in Range(visibleColumns)
           THEN SelectSeqOf(visibleColumns, Range(visibleColumns) \ {columnKey})
           ELSE Append(visibleColumns, columnKey)
     IN  ReportColumns(newVisibleColumns)

\* the Select All button
handleSelectAll ==
  /\ isOpen
  /\ lastOp' = Op("selectAll", "")
  /\ ReportColumns([k \in 1..Len(availableColumns) |->
                     availableColumns[k].key])

(***************************************************************************)
(* The table controller: any props, any sequence of events, on a desktop   *)
(* viewport with no storage key.                                           *)
(***************************************************************************)
DesktopColumns ==
  /\ MountViewport({DefaultMobileBreakpoint})
  /\ MountColumns({NumP(DefaultMinColWidth)}, {FALSE}, {NoKey}, {EmptyStore},
                  {1024}, {8}, {{}})

Init ==
  /\ Mount(RowDataOver(TableEntries), TableHeaderSets, InitialSorts, PageSizes,
           BOOLEAN)
  /\ DesktopColumns
  /\ MountFooter({FALSE}, {DefaultRowsPerPageOptions})
  /\ NoToggle

Next ==
  \/ \E i \in 1..Len(headers) : handleHeaderClick(i, 0)
  \/ PreviousPage
  \/ NextPage
  \/ \E size \in PageSizes : SetRowsPerPage(size)
  \/ SetShouldPaginate
  \/ \E data \in Refreshes(manualRowData, TableEntries) : SetRowData(data)
  \/ \E hdrs \in TableHeaderSets : SetHeaders(hdrs)

Spec == Init /\ [][Next]_vars

(***************************************************************************)
(* The row normalizer alone: every manualRowData of the bound and every    *)
(* column set, with the default page size and no sort.                     *)
(***************************************************************************)
InitNormalizer ==
  /\ Mount(RowDataOver(NormalizerEntries), NormalizerHeaderSets, {NoSort},
           {DefaultRowsPerPage}, {TRUE})
  /\ DesktopColumns
  /\ MountFooter({FALSE}, {DefaultRowsPerPageOptions})
  /\ NoToggle

NextNormalizer ==
  \/ \E data \in Refreshes(manualRowData, NormalizerEntries) : SetRowData(data)
  \/ \E hdrs \in NormalizerHeaderSets : SetHeaders(hdrs)

SpecNormalizer == InitNormalizer /\ [][NextNormalizer]_vars

(***************************************************************************)
(* The sort engine alone: rows whose columns mix numbers, numeric strings  *)
(* and text, the default page size, any sequence of header clicks.         *)
(***************************************************************************)
InitSort ==
  /\ Mount(RowDataOver(SortEntries), TableHeaderSets, InitialSorts,
           {DefaultRowsPerPage}, {TRUE})
  /\ DesktopColumns
  /\ MountFooter({FALSE}, {DefaultRowsPerPageOptions})
  /\ NoToggle

NextSort == \E i \in 1..Len(headers) : handleHeaderClick(i, 0)

SpecSort == InitSort /\ [][NextSort]_vars

(***************************************************************************)
(* The header click in both modes: sized columns over two pages of rows,   *)
(* the auto-size flag on or off, the viewport resized between a phone and  *)
(* a desktop.                                                              *)
(***************************************************************************)
InitColumns ==
  /\ Mount({ColumnData}, ColumnHeaderSets, {NoSort}, {ColumnPageSize}, {TRUE})
  /\ MountViewport({DefaultMobileBreakpoint})
  /\ MountColumns({NumP(DefaultMinColWidth)}, BOOLEAN, {NoKey}, {EmptyStore},
                  ViewportWidths, GlyphWidths, {{}})
  /\ MountFooter({FALSE}, {DefaultRowsPerPageOptions})
  /\ NoToggle

NextColumns ==
  \/ \E i \in 1..Len(headers), domWidth \in DomWidths :
       handleHeaderClick(i, domWidth)
  \/ \E width \in ViewportWidths : handleResize(width)
  \/ PreviousPage
  \/ NextPage
  \/ \E hdrs \in ColumnHeaderSets : SetHeaders(hdrs)

SpecColumns == InitColumns /\ [][NextColumns]_vars

(***************************************************************************)
(* Seeding from the preference store: tap-to-expand on a phone, a storage  *)
(* key that changes, column definitions that change, and a store that      *)
(* other code writes to.                                                   *)
(***************************************************************************)
InitSeed ==
  /\ Mount({ColumnData}, ColumnHeaderSets, {NoSort}, {ColumnPageSize}, {TRUE})
  /\ MountViewport({DefaultMobileBreakpoint})
  /\ MountColumns({NumP(DefaultMinColWidth)}, {TRUE},
                  {NoKey} \cup {StorageKey(name) : name \in StorageNames},
                  {EmptyStore}, {400}, {8}, {{}})
  /\ MountFooter({FALSE}, {DefaultRowsPerPageOptions})
  /\ NoToggle

NextSeed ==
  \/ \E i \in 1..Len(headers) : handleHeaderClick(i, 0)
  \/ \E hdrs \in ColumnHeaderSets : SetHeaders(hdrs)
  \/ \E key \in {NoKey} \cup {StorageKey(name) : name \in StorageNames} :
       SetStorageKey(key)
  \/ \E name \in StorageNames, text \in ForeignTexts :
       ForeignSetItem(name, text)

SpecSeed == InitSeed /\ [][NextSeed]_vars

(***************************************************************************)
(* Drag-resize: pointer-downs on the resizers, moves and releases, with    *)
(* column definitions that change under an open session.                   *)
(***************************************************************************)
InitDrag ==
  /\ Mount({ColumnData}, ColumnHeaderSets, {NoSort}, {DefaultRowsPerPage},
           {TRUE})
  /\ DesktopColumns
  /\ MountFooter({FALSE}, {DefaultRowsPerPageOptions})
  /\ NoToggle

NextDrag ==
  \/ \E i \in 1..Len(headers), x \in PointerXs, offsetWidth \in OffsetWidths :
       handleMouseDown(i, x, offsetWidth)
  \/ \E x \in PointerXs : handleMouseMove(x)
  \/ handleMouseUp
  \/ \E hdrs \in ColumnHeaderSets : SetHeaders(hdrs)

SpecDrag == InitDrag /\ [][NextDrag]_vars

(***************************************************************************)
(* Persisting the width map: a storage key, taps and drags on a phone,     *)
(* column definitions that come and go, and a store whose setItem starts   *)
(* and stops throwing.                                                     *)
(***************************************************************************)
PersistHeaderSets == {SizedHeadersVW, NoHeaders}

WriteFailures == {{}, {"setItem"}}

InitPersist ==
  /\ Mount({ColumnData}, PersistHeaderSets, {NoSort}, {ColumnPageSize}, {TRUE})
  /\ MountViewport({DefaultMobileBreakpoint})
  /\ MountColumns({NumP(DefaultMinColWidth)}, {TRUE}, {StorageKey("k1")},
                  {EmptyStore}, {400}, {8}, WriteFailures)
  /\ MountFooter({FALSE}, {DefaultRowsPerPageOptions})
  /\ NoToggle

NextPersist ==
  \/ \E i \in 1..Len(headers) : handleHeaderClick(i, 0)
  \/ \E i \in 1..Len(headers), x \in PointerXs, offsetWidth \in OffsetWidths :
       handleMouseDown(i, x, offsetWidth)
  \/ \E x \in PointerXs : handleMouseMove(x)
  \/ handleMouseUp
  \/ \E hdrs \in PersistHeaderSets : SetHeaders(hdrs)
  \/ \E ops \in WriteFailures : StorageFails(ops)

SpecPersist == InitPersist /\ [][NextPersist]_vars

(***************************************************************************)
(* Reading the preference store: a storage key that comes and goes, texts  *)
(* of every kind under it, and a getItem that starts and stops throwing.   *)
(***************************************************************************)
ReadFailures == {{}, {"getItem"}}

ReadKeys == {NoKey, StorageKey("k1")}

InitRead ==
  /\ Mount({ColumnData}, ColumnHeaderSets, {NoSort}, {ColumnPageSize}, {TRUE})
  /\ MountViewport({DefaultMobileBreakpoint})
  /\ MountColumns({NumP(DefaultMinColWidth)}, {TRUE}, ReadKeys, {EmptyStore},
                  {400}, {8}, ReadFailures)
  /\ MountFooter({FALSE}, {DefaultRowsPerPageOptions})
  /\ NoToggle

NextRead ==
  \/ \E hdrs \in ColumnHeaderSets : SetHeaders(hdrs)
  \/ \E key \in ReadKeys : SetStorageKey(key)
  \/ \E text \in ForeignTexts : ForeignSetItem("k1", text)
  \/ \E ops \in ReadFailures : StorageFails(ops)

SpecRead == InitRead /\ [][NextRead]_vars

(***************************************************************************)
(* The footer: with and without onRowsPerPageChange, with the default      *)
(* options, an empty list of options and options that are no array, over   *)
(* every row count and page size of the bound.                             *)
(***************************************************************************)
FooterOptionSets == {DefaultRowsPerPageOptions, ArrayOf(<<>>), NotArray}

InitFooter ==
  /\ Mount(RowDataOver({RowA}), {HeadersVW}, {NoSort}, PageSizes, BOOLEAN)
  /\ DesktopColumns
  /\ MountFooter(BOOLEAN, FooterOptionSets)
  /\ NoToggle

NextFooter ==
  \/ \E data \in Refreshes(manualRowData, {RowA}) : SetRowData(data)
  \/ \E size \in PageSizes : SetRowsPerPage(size)
  \/ \E k \in 1..Len(rowsPerPageOptions.items) : selectRowsPerPage(k)
  \/ SetShouldPaginate
  \/ PreviousPage
  \/ NextPage

SpecFooter == InitFooter /\ [][NextFooter]_vars

(***************************************************************************)
(* Data refreshes under sized columns: taps on a phone and drags, with a   *)
(* caller that keeps its headers array between renders or builds it anew.  *)
(***************************************************************************)
RefreshDatas == {ColumnData, ArrayOf(<<RowA>>), ArrayOf(<<RowB, RowA>>)}

InitRefresh ==
  /\ Mount(RefreshDatas, {SizedHeadersVW}, {NoSort}, {ColumnPageSize}, {TRUE})
  /\ MountViewport({DefaultMobileBreakpoint})
  /\ MountColumns({NumP(DefaultMinColWidth)}, {TRUE}, {NoKey}, {EmptyStore},
                  {400}, {8}, {{}})
  /\ MountFooter({FALSE}, {DefaultRowsPerPageOptions})
  /\ NoToggle

NextRefresh ==
  \/ \E i \in 1..Len(headers) : handleHeaderClick(i, 0)
  \/ \E i \in 1..Len(headers), x \in PointerXs, offsetWidth \in OffsetWidths :
       handleMouseDown(i, x, offsetWidth)
  \/ \E x \in PointerXs : handleMouseMove(x)
  \/ handleMouseUp
  \/ \E data \in RefreshDatas \ {manualRowData} : SetRowData(data)
  \/ \E data \in RefreshDatas \ {manualRowData} :
       SetRowDataWithFreshHeaders(data)

SpecRefresh == InitRefresh /\ [][NextRefresh]_vars

(***************************************************************************)
(* Compact mode: a viewport resized across two breakpoints, a caller that  *)
(* changes mobileBreakpoint and unmounts the table, and taps on headers.   *)
(***************************************************************************)
Breakpoints == {500, DefaultMobileBreakpoint}

ViewportSizes == {400, 600, 1024}

InitViewport ==
  /\ Mount({ColumnData}, ColumnHeaderSets, {NoSort}, {ColumnPageSize}, {TRUE})
  /\ MountViewport(Breakpoints)
  /\ MountColumns({NumP(DefaultMinColWidth)}, {TRUE}, {NoKey}, {EmptyStore},
                    ViewportSizes, {8}, {{}})
  /\ MountFooter({FALSE}, {DefaultRowsPerPageOptions})
  /\ NoToggle

NextViewport ==
  \/ \E width \in ViewportSizes : handleResize(width)
  \/ \E breakpoint \in Breakpoints : SetMobileBreakpoint(breakpoint)
  \/ \E i \in 1..Len(headers) : handleHeaderClick(i, 0)
  \/ Unmount

SpecViewport == InitViewport /\ [][NextViewport]_vars

(***************************************************************************)
(* The column visibility menu: three available columns, a caller that      *)
(* starts from any list (one with a repeated key and one naming no column  *)
(* included) and passes every reported list back, and a store whose        *)
(* setItem may throw.                                                      *)
(***************************************************************************)
ToggleColumns ==
  << [key |-> "id", label |-> "ID"], [key |-> "v", label |-> "V"],
     [key |-> "w", label |-> "W"] >>

InitialVisibleColumns ==
  { <<>>, <<"id", "v">>, <<"w", "id", "v">>, <<"v", "v">>, <<"x">> }

ToggleKeys == {NoKey, StorageKey("k1")}

InitToggle ==
  /\ Mount({ColumnData}, {SizedHeadersVW}, {NoSort}, {ColumnPageSize}, {TRUE})
  /\ MountViewport({DefaultMobileBreakpoint})
  /\ MountColumns({NumP(DefaultMinColWidth)}, {TRUE}, {NoKey}, {EmptyStore},
                    {1024}, {8}, WriteFailures)
  /\ MountFooter({FALSE}, {DefaultRowsPerPageOptions})
  /\ MountToggle(ToggleColumns, InitialVisibleColumns, ToggleKeys)

NextToggle ==
  \/ toggleMenu
  \/ handleClickOutside
  \/ \E k \in 1..Len(availableColumns) : handleToggleColumn(k)
  \/ handleSelectAll
  \/ \E ops \in WriteFailures : StorageFails(ops)

SpecToggle == InitToggle /\ [][NextToggle]_vars

(***************************************************************************)
(* Properties.                                                             *)
(***************************************************************************)
\* the 1-based position normalization gave a row
Ordinal(row) == row["#"].n

IdsOf(rws) == [i \in 1..Len(rws) |-> rws[i].id]

\* C1: the number of normalized rows is the number of entries of rowData that
\* are non-null objects, and zero for a rowData that is not an array
NormalizedCountIsObjectCount ==
  Len(rows) =
    IF manualRowData.isArray
    THEN Cardinality({i \in 1..Len(manualRowData.items) :
                        manualRowData.items[i].t = "object"})
    ELSE 0

\* an array holding null, undefined, a number and an object
DroppedEntriesReached ==
  /\ manualRowData.isArray
  /\ {Null, Undefined, Num(5)} \subseteq Range(manualRowData.items)
  /\ Len(rows) = 1

\* C2: the ids of the normalized rows of one dataset are strings and pairwise
\* distinct
IdsAreDistinctStrings ==
  \A i, j \in 1..Len(rows) :
    /\ rows[i].id.t = "string"
    /\ i # j => rows[i].id # rows[j].id

\* C3: while rowData and headers stay the same, every recomputation and every
\* sort click, page navigation and rows-per-page change leaves each normalized
\* row's id as it was, and every row of the sorted view and of the visible
\* page carries the id normalization gave it
IdentityStable ==
  [][(manualRowData' = manualRowData /\ manualHeaders' = manualHeaders)
       => /\ IdsOf(rows') = IdsOf(rows)
          /\ \A i \in 1..Len(sortedRows') :
               sortedRows'[i].id = rows[Ordinal(sortedRows'[i])].id
          /\ \A i \in 1..Len(paginatedRows') :
               paginatedRows'[i].id = rows[Ordinal(paginatedRows'[i])].id]_vars

\* a later page of a view that a sort has reordered, holding a row whose id
\* was built from its position
ReorderedPageReached ==
  /\ lastOp.op \in {"next", "rowData", "rowsPerPage"}
  /\ ~sortConfig.isNull
  /\ sortedRows # rows
  /\ totalPages > 1
  /\ \E i \in 1..Len(rows) : Prop(rows[i]["_meta"], "id") = Undefined

\* C4: a click on a sortable column K sets the sort to K descending exactly
\* when it was K ascending, and to K ascending in every other case
SortClickToggles ==
  [][\A i \in 1..Len(headers) :
       (lastOp' = Op("click", headers[i].accessor) /\ headers[i].isSortable)
         => sortConfig' =
              IF sortConfig = SortBy(headers[i].accessor, "asc")
              THEN SortBy(headers[i].accessor, "desc")
              ELSE SortBy(headers[i].accessor, "asc")]_vars

\* a second click on the same column has made it descending
DescendingAfterClickReached ==
  /\ lastOp.op = "click"
  /\ sortConfig = SortBy(lastOp.key, "desc")

\* C5: in the sorted view, two rows with equal sort-key values are in the
\* order of the normalized input, whatever the direction
SortIsStable ==
  \A i, j \in 1..Len(sortedRows) :
    (i < j /\ Cell(sortedRows[i], sortConfig.key)
                = Cell(sortedRows[j], sortConfig.key))
      => Ordinal(sortedRows[i]) < Ordinal(sortedRows[j])

\* C6: with no sort, or a sort whose key is null or empty, the sorted view is
\* the normalized rows in input order
NullSortKeepsInputOrder ==
  (sortConfig.isNull \/ sortConfig.key = "") => sortedRows = rows

\* rows renormalized after a data refresh with no sort key, ids out of order
UnsortedRefreshReached ==
  /\ sortConfig.isNull \/ sortConfig.key = ""
  /\ lastOp.op = "rowData"
  /\ Len(rows) >= 2
  /\ JsLess(rows[2].id, rows[1].id)

\* a number, or a string that is the text of a number
NumericLike(v) ==
  \/ v.t = "number"
  \/ v.t = "string" /\ Trim(v.s) # <<>> /\ ~StringToNumber(v.s).nan

\* the order C7 describes: numeric when both values are numeric-like, the
\* order of their texts otherwise
DescribedLess(a, b) ==
  IF NumericLike(a) /\ NumericLike(b)
  THEN ToNumber(a).n < ToNumber(b).n
  ELSE StringLess(StringOf(a), StringOf(b))

\* C7: two rows are compared numerically when both sort-key values are
\* numeric-like, numeric strings included, and lexically otherwise
ComparesNumericLikeNumerically ==
  (~sortConfig.isNull /\ sortConfig.key # "")
    => \A i, j \in 1..Len(rows) :
         LET a == Cell(rows[i], sortConfig.key)
             b == Cell(rows[j], sortConfig.key)
         IN  compareRows(rows[i], rows[j], SortBy(sortConfig.key, "asc"))
               = IF DescribedLess(a, b) THEN -1
                 ELSE IF DescribedLess(b, a) THEN 1 ELSE 0

RECURSIVE PagesUpTo(_)
\* the page slices 1..last of the sorted view, one after the other
PagesUpTo(last) ==
  IF last = 0 THEN <<>>
  ELSE PagesUpTo(last - 1)
         \o PaginatedRows(sortedRows, last, rowsPerPage, TRUE)

\* C8: under effective pagination the page slices 1..totalPages, one after
\* the other, are the sorted sequence
PagesCoverSortedRows ==
  (shouldPaginate /\ Len(sortedRows) > rowsPerPage)
    => PagesUpTo(totalPages) = sortedRows

\* the last page of several, shorter than a full page
PartialLastPageReached ==
  /\ shouldPaginate
  /\ totalPages >= 2
  /\ currentPage = totalPages
  /\ Len(sortedRows) % rowsPerPage # 0
  /\ Len(paginatedRows) < rowsPerPage

\* C9: with no more rows than rowsPerPage, or with shouldPaginate off, the
\* visible rows are the whole sorted sequence whatever the page, and no
\* Previous/Next controls are shown
GatedPaginationShowsAll ==
  (Len(sortedRows) <= rowsPerPage \/ ~shouldPaginate)
    => /\ paginatedRows = sortedRows
       /\ ~PageControlsShown
       /\ \A page \in 1..(MaxRows + 1) :
            PaginatedRows(sortedRows, page, rowsPerPage,
                          effectiveShouldPaginate) = sortedRows

\* several rows that fit one page with shouldPaginate on
FitsOnePageReached ==
  /\ shouldPaginate
  /\ Len(sortedRows) >= 2
  /\ Len(sortedRows) <= rowsPerPage
  /\ lastOp.op \in {"rowData", "rowsPerPage"}

\* the least k with k * size >= count
LeastCover(count, size) ==
  CHOOSE k \in 0..count :
    /\ k * size >= count
    /\ \A m \in 0..(k - 1) : m * size < count

\* C10 as stated: in every state totalPages is ceil(rows / rowsPerPage), at
\* least 1
TotalPagesIsCeil ==
  totalPages = Max(1, LeastCover(Len(sortedRows), rowsPerPage))

\* C10 amended: totalPages is ceil(rows / rowsPerPage), at least 1, while
\* shouldPaginate is on, and 1 while it is off
TotalPagesIsGatedCeil ==
  totalPages = IF shouldPaginate
               THEN Max(1, LeastCover(Len(sortedRows), rowsPerPage))
               ELSE 1

\* shouldPaginate on and a last page that is not full
RoundedUpPagesReached ==
  /\ shouldPaginate
  /\ totalPages >= 2
  /\ totalPages * rowsPerPage > Len(sortedRows)

\* C11: when a change of data, column definitions, page size or pagination
\* flag leaves currentPage greater than the new totalPages, currentPage is 1
\* (not totalPages) in the settled state that follows
OverflowResetsToFirstPage ==
  [][(/\ lastOp'.op \in {"rowData", "headers", "rowsPerPage", "shouldPaginate"}
      /\ currentPage > totalPages')
       => currentPage' = 1]_vars

\* a data refresh has left fewer pages than the page that was shown, with
\* more than one page still there
OverflowResetReached ==
  /\ lastOp.op = "rowData"
  /\ totalPages >= 2
  /\ pageBefore > totalPages
  /\ currentPage = 1

\* C12: Previous on page 1 and Next on page totalPages leave currentPage as
\* it is, otherwise they move it by exactly one, and currentPage stays within
\* 1..totalPages
PageButtonsClamp ==
  [][/\ lastOp'.op = "previous"
          => currentPage' = IF currentPage = 1 THEN 1 ELSE currentPage - 1
     /\ lastOp'.op = "next"
          => currentPage' = IF currentPage = totalPages THEN currentPage
                            ELSE currentPage + 1
     /\ lastOp'.op \in {"previous", "next"}
          => currentPage' \in 1..totalPages']_vars

\* Next pressed on the last of several pages
NextOnLastPageReached ==
  /\ lastOp.op = "next"
  /\ totalPages >= 2
  /\ pageBefore = totalPages
  /\ currentPage = totalPages

\* C13: every change of rowsPerPage sets currentPage to 1, whatever page was
\* current before
PageSizeChangeResetsPage ==
  [][rowsPerPage' # rowsPerPage => currentPage' = 1]_vars

\* a page-size change away from a page that the new page count still has
PageSizeChangeFromLaterPageReached ==
  /\ lastOp.op = "rowsPerPage"
  /\ pageBefore > 1
  /\ pageBefore <= totalPages
  /\ currentPage = 1

\* C14: every header click that changes the sort key or direction sets
\* currentPage to 1 in the same transition
SortChangeResetsPage ==
  [][(lastOp'.op = "click" /\ sortConfig' # sortConfig)
       => currentPage' = 1]_vars

\* a sort click away from a later page of a view that keeps that many pages
SortClickFromLaterPageReached ==
  /\ lastOp.op = "click"
  /\ ~sortConfig.isNull
  /\ sortConfig.key = lastOp.key
  /\ pageBefore > 1
  /\ pageBefore <= totalPages
  /\ currentPage = 1

\* the columns of the current definitions with the accessor of the last event
ClickedColumns == {i \in 1..Len(headers) : headers[i].accessor = lastOp'.key}

\* C15: a click on the header of a column that is not sortable leaves the
\* sort and currentPage unchanged, and outside tap-to-expand mode it changes
\* no state at all
NonSortableClickIsNoOp ==
  [][(/\ lastOp'.op \in {"click", "expand", "collapse"}
      /\ \A i \in ClickedColumns : ~headers[i].isSortable)
       => /\ sortConfig' = sortConfig
          /\ currentPage' = currentPage
          /\ lastOp'.op = "click"
               => /\ UNCHANGED tableVars
                  /\ UNCHANGED columnVars]_vars

\* a non-sortable header clicked on the second page of a sorted view
NonSortableClickReached ==
  /\ lastOp.op = "click"
  /\ \E i \in 1..Len(headers) :
       headers[i].accessor = lastOp.key /\ ~headers[i].isSortable
  /\ ~sortConfig.isNull
  /\ sortConfig.key # lastOp.key
  /\ currentPage = 2

\* C16 as stated: replacing rowData or the column definitions changes neither
\* the sort nor currentPage, and besides page navigation only a sort click or
\* a rows-per-page change changes currentPage
DataChangeKeepsSortAndPage ==
  [][/\ lastOp'.op \in {"rowData", "headers"}
          => sortConfig' = sortConfig /\ currentPage' = currentPage
     /\ currentPage' # currentPage
          => lastOp'.op \in {"click", "rowsPerPage", "previous", "next"}]_vars

\* C16 amended: replacing rowData or the column definitions never changes
\* the sort, and leaves currentPage unchanged unless it is greater than the
\* new totalPages, when it becomes 1; besides page navigation, currentPage
\* changes only on a sort click, a rows-per-page change or that overflow
DataChangeKeepsPageUnlessOverflow ==
  [][/\ lastOp'.op \in {"rowData", "headers"}
          => /\ sortConfig' = sortConfig
             /\ currentPage' = IF currentPage > totalPages' THEN 1
                               ELSE currentPage
     /\ currentPage' # currentPage
          => \/ lastOp'.op \in {"click", "rowsPerPage", "previous", "next"}
             \/ currentPage > totalPages' /\ currentPage' = 1]_vars

\* a data refresh that has kept a later page and the sort
RefreshOnLaterPageReached ==
  /\ lastOp.op = "rowData"
  /\ ~sortConfig.isNull
  /\ pageBefore > 1
  /\ currentPage = pageBefore

\* the value persisted for an accessor under a storage key is there and is a
\* number or a string
PersistedWellTyped(key, st, accessor) ==
  /\ key.given
  /\ st[key.name].kind = "json"
  /\ st[key.name].value.t = "object"
  /\ accessor \in DOMAIN st[key.name].value.o
  /\ st[key.name].value.o[accessor].t \in {"number", "string"}

\* C17: after seeding, the width of each accessor is the value persisted for
\* it under the storage key when that is there and is a number or a string,
\* and the column's declared width (undefined when none is declared)
\* otherwise
SeedingPrefersPersisted ==
  [][lastOp'.op \in {"headers", "storageKey"}
       => /\ DOMAIN columnWidths' =
               {headers'[i].accessor : i \in 1..Len(headers')}
          /\ \A i \in 1..Len(headers') :
               columnWidths'[headers'[i].accessor] =
                 IF PersistedWellTyped(columnWidthsStorageKey', store,
                                       headers'[i].accessor)
                 THEN store[columnWidthsStorageKey'.name].value
                        .o[headers'[i].accessor]
                 ELSE headers'[i].width]_vars

\* seeded under a key whose stored object has a number for one column and
\* null for the other: the first takes the stored number over its declared
\* width, the second keeps its undeclared width
SeededFromStoreReached ==
  /\ lastOp.op = "storageKey"
  /\ columnWidthsStorageKey.given
  /\ manualHeaders = SizedHeadersVW
  /\ columnWidths["v"] = NumP(33)
  /\ columnWidths["w"] = UndefP

\* the pixels of a width written as `${n}px`
PixelsOf(width) == ParseFloat(width.s).n

\* the minimum width a column declares, as a number of pixels, and the
\* table's minColWidth when it declares none that parses
DeclaredMinWidth(header) ==
  IF header.minWidth.t = "number" THEN header.minWidth.n
  ELSE IF header.minWidth.t = "string" /\ ~ParseFloat(header.minWidth.s).nan
  THEN ParseFloat(header.minWidth.s).n
  ELSE minColWidth.n

\* the drag session whose write lands last for its accessor
LandsLast(k) ==
  \A m \in (k + 1)..Len(dragSessions) :
    dragSessions[m].accessor # dragSessions[k].accessor

\* C18 as stated: after every pointer-move of a drag, the width written for
\* the dragged column is at least the larger of the column's minWidth and
\* the table's minColWidth
DragFloorIsLargerMinimum ==
  [][lastOp'.op = "mousemove"
       => \A k \in 1..Len(dragSessions) :
            LandsLast(k)
              => /\ PixelsOf(columnWidths'[dragSessions[k].accessor])
                      >= minColWidth.n
                 /\ \A i \in 1..Len(headers) :
                      headers[i].accessor = dragSessions[k].accessor
                        => PixelsOf(columnWidths'[dragSessions[k].accessor])
                             >= DeclaredMinWidth(headers[i])]_vars

\* C18 amended: a pointer-down takes as floor the column's declared minWidth
\* when it parses to a number and the table's minColWidth otherwise, and
\* after every pointer-move the width written for the dragged column is at
\* least the floor its session took
DragFloorIsColumnMinimum ==
  [][/\ lastOp'.op = "mousedown"
          => \E i \in 1..Len(headers) :
               /\ headers[i].accessor = lastOp'.key
               /\ dragSessions'[Len(dragSessions')].minResizeWidth.n
                    = DeclaredMinWidth(headers[i])
     /\ lastOp'.op = "mousemove"
          => \A k \in 1..Len(dragSessions) :
               LandsLast(k)
                 => PixelsOf(columnWidths'[dragSessions[k].accessor])
                      >= dragSessions[k].minResizeWidth.n]_vars

\* a move that would have shrunk the column below its floor, written as the
\* floor
DragClampedReached ==
  /\ lastOp.op = "mousemove"
  /\ Len(dragSessions) = 1
  /\ \E x \in PointerXs :
       dragSessions[1].startWidth + (x - dragSessions[1].startX)
         < dragSessions[1].minResizeWidth.n
  /\ PixelsOf(columnWidths[dragSessions[1].accessor])
       = dragSessions[1].minResizeWidth.n

\* C19: the width auto-size sets for a column is at least the estimated text
\* width of the header label plus 12, at least the estimated text width of
\* the column's cell in every row, of the visible page or not, plus 12, and
\* at least the column's minimum width
AutoSizeCoversAllRows ==
  [][lastOp'.op = "expand"
       => \A i \in ClickedColumns :
            LET width == PixelsOf(columnWidths'[headers[i].accessor])
            IN  /\ headers[i].label.t = "string"
                     => width >= Len(headers[i].label.s) * glyphWidth + 12
                /\ \A r \in 1..Len(rows) :
                     width >= measureTextWidth(
                                Cell(rows[r], headers[i].accessor),
                                glyphWidth) + 12
                /\ width >= DeclaredMinWidth(headers[i])]_vars

\* a column auto-sized on the second page to a width that only a row of the
\* first page needs
AutoSizedByUnseenRowReached ==
  /\ lastOp.op = "expand"
  /\ currentPage = 2
  /\ glyphWidth > 0
  /\ \E r \in 1..Len(rows) :
       /\ PixelsOf(columnWidths[lastOp.key])
            = measureTextWidth(Cell(rows[r], lastOp.key), glyphWidth) + 12
       /\ \A q \in 1..Len(paginatedRows) :
            measureTextWidth(Cell(paginatedRows[q], lastOp.key), glyphWidth)
              < measureTextWidth(Cell(rows[r], lastOp.key), glyphWidth)

\* C20: in compact mode with mobileAutoSizeOnHeaderClick on, a header click
\* toggles the column in the expanded set and leaves the sort and
\* currentPage unchanged, also for a sortable column; with the flag off or
\* the viewport not compact, it only attempts a sort and leaves the width
\* map and the expanded set unchanged
HeaderClickDispatchesByMode ==
  [][lastOp'.op \in {"click", "expand", "collapse"}
       => IF mobileAutoSizeOnHeaderClick /\ isMobile
          THEN /\ expandedColumns' =
                    IF lastOp'.key \in expandedColumns
                    THEN expandedColumns \ {lastOp'.key}
                    ELSE expandedColumns \cup {lastOp'.key}
               /\ sortConfig' = sortConfig
               /\ currentPage' = currentPage
          ELSE /\ columnWidths' = columnWidths
               /\ expandedColumns' = expandedColumns
               /\ \A i \in ClickedColumns :
                    sortConfig' = IF headers[i].isSortable
                                  THEN NextSortConfig(sortConfig,
                                                      headers[i].accessor)
                                  ELSE sortConfig]_vars

\* a sortable column tapped in compact mode on the second page of a sorted
\* view
SortableColumnExpandedReached ==
  /\ lastOp.op = "expand"
  /\ \E i \in 1..Len(headers) :
       headers[i].accessor = lastOp.key /\ headers[i].isSortable
  /\ lastOp.key \in expandedColumns
  /\ ~sortConfig.isNull
  /\ currentPage = 2

\* the events that end in a change of the width map
WidthChangeOps == {"expand", "collapse", "mousemove", "headers", "storageKey"}

\* C21: a write to the preference store that throws during a width-map change
\* is caught: nothing propagates out of the table, and the width map holds
\* the new width
FailingWriteIsSkipped ==
  [][(/\ lastOp'.op \in WidthChangeOps
      /\ columnWidthsStorageKey'.given
      /\ "setItem" \in storageThrows)
     => ~thrown']_vars

\* the seed effect read nothing it can use: the read threw, there was no
\* text, or the text was not JSON or not the JSON of an object
ReadUnusable ==
  \/ seedFound.kind \in {"throws", "absent", "empty", "invalid"}
  \/ seedFound.kind = "json" /\ seedFound.value.t # "object"

\* C22: when reading the preference store throws, returns nothing, returns
\* text that is not valid JSON, or returns a non-object, seeding yields
\* exactly the declared widths; and a stored entry whose value is neither a
\* number nor a string leaves the accessor's declared width in place
SeedingToleratesBadStore ==
  /\ ReadUnusable => columnWidths = InitialWidths(headers)
  /\ (seedFound.kind = "json" /\ seedFound.value.t = "object")
       => \A a \in DOMAIN InitialWidths(headers) :
            TypeOf(Prop(seedFound.value, a)) \notin {"number", "string"}
              => /\ a \in DOMAIN columnWidths
                 /\ columnWidths[a] = InitialWidths(headers)[a]

\* seeded while getItem throws: the column with a declared width has it
ThrowingReadSeedsDeclaredReached ==
  /\ lastOp.op = "storageKey"
  /\ seedFound = ThrownRead
  /\ manualHeaders = SizedHeadersVW
  /\ columnWidths["v"] = NumP(80)
  /\ columnWidths["w"] = UndefP

\* C23: the footer is rendered only when onRowsPerPageChange is provided;
\* without it neither the footer nor the page-size selector appears,
\* whatever the row count and the page size
FooterOnlyWithCallback ==
  ~onRowsPerPageChange => ~FooterShown /\ ~SelectorShown

\* C24: the id of a normalized row is the trimmed string form of the raw
\* row's id when that is neither null/undefined nor blank, and otherwise the
\* hyphen-joined non-empty fallback fields followed by "-row" and the row's
\* zero-based position among the kept rows
NormalizedIdIsSafeId ==
  \A i \in 1..Len(rows) :
    rows[i].id = Str(makeSafeId(KeptRows(manualRowData)[i], i - 1))

\* C25: for every header accessor other than "#" and "details_meta" the field
\* of a normalized row is the raw row's value for the accessor, or the empty
\* string when that is absent or null; and the "#" field is the row's 1-based
\* position among the kept rows, whatever the raw row has under "#"
FieldsAreRawOrEmpty ==
  \A i \in 1..Len(rows) :
    LET full == KeptRows(manualRowData)[i]
    IN  /\ \A j \in 1..Len(headers) :
             headers[j].accessor \notin {"#", "details_meta"}
               => rows[i][headers[j].accessor] =
                    IF Prop(full, headers[j].accessor).t
                         \in {"undefined", "null"}
                    THEN Str(<<>>)
                    ELSE Prop(full, headers[j].accessor)
        /\ rows[i]["#"] = Num(i)

\* "#" is a header accessor and the second kept row carries its own "#"
OwnOrdinalIgnoredReached ==
  /\ manualHeaders = HeadersReserved
  /\ Len(rows) >= 2
  /\ KeptRows(manualRowData)[2] = RowDup
  /\ Prop(RowDup, "#") = Num(9)
  /\ rows[2]["#"] = Num(2)

\* the width the description gives the column of a session when the pointer
\* is at x: startWidth + (x - startX), and the column minimum when that is
\* larger
DescribedDragWidth(session, x, columnMinWidth) ==
  LET moved == session.startWidth + (x - session.startX)
  IN  IF moved > columnMinWidth THEN moved ELSE columnMinWidth

\* C26: on every pointer-move of a drag session the dragged column's width
\* becomes max(startWidth + (currentX - startX), columnMinWidth), with
\* columnMinWidth the column's declared minWidth when it parses to a number
\* and the table's minColWidth otherwise, and no other column's width changes
DragMoveSetsDraggedColumnOnly ==
  [][lastOp'.op = "mousemove"
       => LET session == dragSessions[Len(dragSessions)]
          IN  /\ \E x \in PointerXs :
                   \A i \in 1..Len(headers) :
                     headers[i].accessor = session.accessor
                       => PixelsOf(columnWidths'[session.accessor]) =
                            DescribedDragWidth(session, x,
                                               DeclaredMinWidth(headers[i]))
              /\ \A a \in DOMAIN columnWidths \ {session.accessor} :
                   /\ a \in DOMAIN columnWidths'
                   /\ columnWidths'[a] = columnWidths[a]
              /\ DOMAIN columnWidths' \subseteq
                   DOMAIN columnWidths \cup {session.accessor}]_vars

\* C27: at most one drag session is active at any time: at most one pair of
\* move/up listeners is attached in every reachable state, after a pointer-up
\* none is attached, and with none attached a pointer-move does not change
\* the width map
AtMostOneDragSession ==
  /\ Len(dragSessions) <= 1
  /\ lastOp.op = "mouseup" => dragSessions = <<>>

ResetRestoresDeclaredWidth ==
  [][lastOp'.op = "collapse"
       => /\ \A i \in ClickedColumns :
               IF headers[i].width.t = "undefined"
               THEN lastOp'.key \notin DOMAIN columnWidths'
               ELSE /\ lastOp'.key \in DOMAIN columnWidths'
                    /\ columnWidths'[lastOp'.key] = headers[i].width
          /\ \A a \in DOMAIN columnWidths \ {lastOp'.key} :
               /\ a \in DOMAIN columnWidths'
               /\ columnWidths'[a] = columnWidths[a]
          /\ DOMAIN columnWidths' \subseteq DOMAIN columnWidths]_vars

\* a column seeded from the store, expanded and reset: it has its declared
\* width, not the stored one, and the other column still has its stored
\* width
ResetOverPersistedReached ==
  /\ lastOp = Op("collapse", "v")
  /\ manualHeaders = SizedHeadersIdV
  /\ columnWidths["v"] = NumP(90)
  /\ columnWidths["id"] = StrP(<<"4", "4", "p", "x">>)

\* the last two events were taps on the same header in tap-to-expand mode
TwoTaps ==
  /\ lastOp.op \in {"expand", "collapse"}
  /\ lastOp'.op \in {"expand", "collapse"}
  /\ lastOp'.key = lastOp.key

\* the expanded set before the tap that led to the current state
ExpandedBeforeTap ==
  IF lastOp.op = "expand" THEN expandedColumns \ {lastOp.key}
  ELSE expandedColumns \cup {lastOp.key}

\* the column of the last event has the width it declares, and no entry
\* when it declares none
TappedColumnAtDeclaredWidth ==
  \A i \in ClickedColumns :
    IF headers[i].width.t = "undefined"
    THEN lastOp'.key \notin DOMAIN columnWidths'
    ELSE /\ lastOp'.key \in DOMAIN columnWidths'
         /\ columnWidths'[lastOp'.key] = headers[i].width

\* C30 as stated: two consecutive taps on the same column leave the expanded
\* set as before and the column at its declared width
TwoTapsRestoreDeclaredWidth ==
  [][TwoTaps => /\ expandedColumns' = ExpandedBeforeTap
                /\ TappedColumnAtDeclaredWidth]_vars

\* C30 amended: two consecutive taps on the same column leave the expanded
\* set as before; the column ends at its declared width when it was not in
\* the set before the two taps, and at its auto-sized width when it was
TwoTapsRestoreExpandedSet ==
  [][TwoTaps
       => /\ expandedColumns' = ExpandedBeforeTap
          /\ lastOp.key \notin ExpandedBeforeTap
               => /\ lastOp'.op = "collapse"
                  /\ TappedColumnAtDeclaredWidth
          /\ lastOp.key \in ExpandedBeforeTap
               => /\ lastOp'.op = "expand"
                  /\ \A i \in ClickedColumns :
                       \E domWidth \in DomWidths :
                         columnWidths'[lastOp'.key] =
                           TemplatePx(AutoSizedWidth(headers[i], rows,
                                                     domWidth, glyphWidth,
                                                     minColWidth))]_vars

\* a column collapsed and expanded again by two taps in a row: it is in the
\* expanded set as before them, at a width that is not the one it declares
CollapsedThenExpandedReached ==
  /\ lastOp = Op("expand", "v")
  /\ tapBefore
  /\ manualHeaders = SizedHeadersVW
  /\ "v" \in expandedColumns
  /\ columnWidths["v"] # NumP(80)

\* C31: every change of the column definitions or of the storage key empties
\* the expanded-column set and reseeds the width map, so that after it no
\* column is in the expanded set and the width map has one entry for each
\* accessor of the new definitions and no other
DefinitionChangeClearsExpanded ==
  [][lastOp'.op \in {"headers", "storageKey"}
       => /\ expandedColumns' = {}
          /\ initialColumnWidthsRef' = InitialWidths(headers')
          /\ DOMAIN columnWidths' =
               {headers'[i].accessor : i \in 1..Len(headers')}]_vars

\* the column definitions changed after a tap had expanded column v: the
\* width map was reseeded with the auto-sized width the tap had stored, and
\* the expanded set is empty
ExpandedClearedByNewHeadersReached ==
  /\ lastOp.op = "headers"
  /\ manualHeaders = SizedHeadersIdV
  /\ columnWidthsStorageKey.given
  /\ seedFound.kind = "json"
  /\ columnWidths["v"] = StrP(<<"2", "8", "p", "x">>)
  /\ expandedColumns = {}

\* C32: a change of rowData that leaves the column definitions and the
\* storage key unchanged leaves the width map and the expanded-column set
\* unchanged; the width map changes only on drag-move, auto-size, reset to
\* default, or a change of the column definitions or of the storage key
DataChangeKeepsWidths ==
  [][/\ (/\ manualRowData' # manualRowData
          /\ manualHeaders' = manualHeaders
          /\ columnWidthsStorageKey' = columnWidthsStorageKey)
         => /\ columnWidths' = columnWidths
            /\ expandedColumns' = expandedColumns
     /\ columnWidths' # columnWidths => lastOp'.op \in WidthChangeOps]_vars

\* C33: in every settled state while mounted, compact mode is true exactly
\* when the viewport width is below the configured mobileBreakpoint, also
\* after a viewport resize and after a change of mobileBreakpoint; exactly
\* one resize listener is subscribed while mounted and none after teardown
CompactModeTracksBreakpoint ==
  /\ mounted => /\ isMobile = (innerWidth < mobileBreakpoint)
                /\ resizeListeners = 1
  /\ ~mounted => resizeListeners = 0

\* the keys of the available columns, in their order
AvailableKeys == [k \in 1..Len(availableColumns) |-> availableColumns[k].key]

\* the list without every occurrence of the key
ListWithout(list, key) == SelectSeqOf(list, Range(list) \ {key})

\* C34: toggling a visible key reports the list without it, toggling a hidden
\* key reports the list with the key appended, toggling the same key twice
\* reports the set of keys there was before, Select All reports the keys of
\* the available columns in their order, and with a storage key and a store
\* that takes the write the reported list is the list stored
ToggleReportsFilteredOrAppended ==
  [][/\ (lastOp'.op = "toggleColumn") =>
       (/\ reported'.called
        /\ reported'.columns =
             IF lastOp'.key \in Range(visibleColumns)
             THEN ListWithout(visibleColumns, lastOp'.key)
             ELSE Append(visibleColumns, lastOp'.key)
        /\ (lastOp' = lastOp) =>
             (Range(reported'.columns) =
                IF lastOp.key \in Range(visibleColumns)
                THEN Range(visibleColumns) \ {lastOp.key}
                ELSE Range(visibleColumns) \cup {lastOp.key}))
     /\ (lastOp'.op = "selectAll") =>
       (reported'.called /\ reported'.columns = AvailableKeys)
     /\ (/\ lastOp'.op \in {"toggleColumn", "selectAll"}
         /\ visibilityStorageKey.given
         /\ "setItem" \notin storageThrows) =>
       (storedColumns' = StoredList(reported'.columns))]_vars

\* a key toggled twice in a row with a storage key, the second list stored
ToggledTwiceAndStoredReached ==
  /\ lastOp.op = "toggleColumn"
  /\ reported.again
  /\ lastOp.key \in Range(reported.columns)
  /\ Len(reported.columns) = 3
  /\ visibilityStorageKey.given
  /\ storedColumns = StoredList(reported.columns)

\* C35: whatever the column set, a column with accessor "id" or "_meta"
\* included, the id of a normalized row is the computed identity string and
\* its _meta is the raw row
IdentityAndMetaSurviveColumns ==
  \A i \in 1..Len(rows) :
    /\ rows[i].id = Str(makeSafeId(KeptRows(manualRowData)[i], i - 1))
    /\ rows[i]["_meta"] = KeptRows(manualRowData)[i]

\* C36: in every settled state currentPage is between 1 and totalPages, and
\* the visible page holds at least one row when there is a normalized row
PageInRangeAndNonEmpty ==
  /\ 1 <= currentPage
  /\ currentPage <= totalPages
  /\ Len(rows) > 0 => Len(paginatedRows) >= 1

\* a data change that shortened the last page away while it was shown
LastPageShrunkAwayReached ==
  /\ lastOp.op = "rowData"
  /\ pageBefore > totalPages
  /\ totalPages >= 2
  /\ currentPage = 1
  /\ Len(paginatedRows) = rowsPerPage

\* C37: in every reachable state, those reached by changing the column
\* definitions under an open drag session included, every key of the width
\* map is the accessor of a current column
WidthKeysAreAccessors ==
  DOMAIN columnWidths \subseteq {headers[i].accessor : i \in 1..Len(headers)}

AccessorsOf(hdrs) == {hdrs[i].accessor : i \in 1..Len(hdrs)}

\* the value the store holds for an accessor under the storage key
PersistedWidth(st, accessor) == st[columnWidthsStorageKey.name].value.o[accessor]

\* C38: with a storage key, a width persisted for a column is still persisted
\* for it after a change of column definitions that removes the column, and a
\* change of column definitions that adds the column seeds its width with the
\* value persisted for it
PersistedWidthSurvivesRemoval ==
  [][(lastOp'.op = "headers" /\ columnWidthsStorageKey.given)
       => \A c \in AccessorsOf(headers) \cup AccessorsOf(headers') :
            PersistedWellTyped(columnWidthsStorageKey, store, c)
              => /\ c \notin AccessorsOf(headers')
                      => /\ PersistedWellTyped(columnWidthsStorageKey, store', c)
                         /\ PersistedWidth(store', c) = PersistedWidth(store, c)
                 /\ c \notin AccessorsOf(headers)
                      => columnWidths'[c] = PersistedWidth(store, c)]_vars

\* C39: when the active sort key is the accessor of no current column, the
\* sorted view is the normalized rows in their original order, in both
\* directions; and the sorted view is always a permutation of the normalized
\* rows
SortByMissingColumnKeepsOrder ==
  /\ (~sortConfig.isNull /\ sortConfig.key \notin AccessorsOf(headers))
       => sortedRows = rows
  /\ Len(sortedRows) = Len(rows)
  /\ \A r \in Range(rows) \cup Range(sortedRows) :
       Cardinality({i \in 1..Len(rows) : rows[i] = r}) =
         Cardinality({i \in 1..Len(sortedRows) : sortedRows[i] = r})
====
